---- MODULE Spec2Model ----
(***************************************************************************)
(* TreeVuln decision engine: node evaluators (app/engine/nodes.py), the    *)
(* traversal engine (app/engine/inference.py) and the batch executor       *)
(* (app/engine/batch.py).                                                  *)
(*                                                                         *)
(* Python values are records [t, n, s, l]: t is the type tag, n the        *)
(* numeric value in tenths (9.5 is 95), s the text of a str, l the items   *)
(* of a list.  An Optional[...] attribute is <<>> (None) or <<x>>.         *)
(***************************************************************************)
EXTENDS Integers, Sequences, FiniteSets, TLC

VARIABLES
    engine,          \* InferenceEngine: tree_structure, nodes, edges, root_node_id
    lookups,         \* lookups argument: table -> key -> row
    include_path,    \* include_path argument
    vulnerabilities, \* process_batch: the input list
    chunk_size,      \* BatchProcessor.chunk_size
    batch,           \* process_batch locals: pc, i, chunk, chunk_results, results, response
    calls,           \* per thread: the locals of its evaluate call
    pool,            \* _REGEX_EXECUTOR: busy workers and queued searches
    fn               \* a direct call of a library function: its name, arguments,
                     \* position and outcome

vars ==
    <<engine, lookups, include_path, vulnerabilities, chunk_size, batch, calls, pool, fn>>

----------------------------------------------------------------------------
(* Python values *)

Nothing == <<>>

Some(x) == <<x>>

PyNone == [t |-> "none", n |-> 0, s |-> "", l |-> <<>>]

PyInt(i) == [t |-> "int", n |-> 10 * i, s |-> "", l |-> <<>>]

PyFloat10(tenths) == [t |-> "float", n |-> tenths, s |-> "", l |-> <<>>]

PyBool(b) == [t |-> "bool", n |-> IF b THEN 10 ELSE 0, s |-> "", l |-> <<>>]

PyStrV(text) == [t |-> "str", n |-> 0, s |-> text, l |-> <<>>]

PyList(items) == [t |-> "list", n |-> 0, s |-> "", l |-> items]

PyDict == [t |-> "dict", n |-> 0, s |-> "", l |-> <<>>]

IsNumber(v) == v.t \in {"int", "float", "bool"}

\* a == b on scalars (True == 1 == 1.0)
ScalarEq(a, b) ==
    \/ IsNumber(a) /\ IsNumber(b) /\ a.n = b.n
    \/ a.t = "str" /\ b.t = "str" /\ a.s = b.s
    \/ a.t = "none" /\ b.t = "none"

\* a == b
PyEq(a, b) ==
    IF a.t = "list" /\ b.t = "list"
    THEN /\ Len(a.l) = Len(b.l)
         /\ \A k \in 1..Len(a.l) : ScalarEq(a.l[k], b.l[k])
    ELSE ScalarEq(a, b)

\* bool(v)
Truthy(v) ==
    CASE v.t = "none" -> FALSE
      [] IsNumber(v) -> v.n # 0
      [] v.t = "str" -> v.s # ""
      [] v.t = "list" -> v.l # <<>>
      [] OTHER -> TRUE

----------------------------------------------------------------------------
(* str methods *)

CharAt(text, k) == SubSeq(text, k, k)

StartsWith(text, prefix) ==
    /\ Len(text) >= Len(prefix)
    /\ SubSeq(text, 1, Len(prefix)) = prefix

\* needle in hay
Contains(hay, needle) ==
    \E k \in 1..(Len(hay) - Len(needle) + 1) :
        SubSeq(hay, k, k + Len(needle) - 1) = needle

IsSpace(c) == c \in {" ", "\t", "\n", "\r"}

RECURSIVE LStrip(_)
LStrip(text) ==
    IF text # "" /\ IsSpace(CharAt(text, 1))
    THEN LStrip(SubSeq(text, 2, Len(text)))
    ELSE text

RECURSIVE RStrip(_)
RStrip(text) ==
    IF text # "" /\ IsSpace(CharAt(text, Len(text)))
    THEN RStrip(SubSeq(text, 1, Len(text) - 1))
    ELSE text

\* text.strip()
Strip(text) == RStrip(LStrip(text))

\* position of the first sep (one character) in text, 0 when absent
RECURSIVE FindFrom(_, _, _)
FindFrom(text, sep, k) ==
    IF k > Len(text) THEN 0
    ELSE IF CharAt(text, k) = sep THEN k
    ELSE FindFrom(text, sep, k + 1)

\* text.split(sep), sep one character
RECURSIVE Split(_, _)
Split(text, sep) ==
    LET k == FindFrom(text, sep, 1)
    IN  IF k = 0 THEN <<text>>
        ELSE <<SubSeq(text, 1, k - 1)>> \o Split(SubSeq(text, k + 1, Len(text)), sep)

IsDigit(c) == c \in {"0", "1", "2", "3", "4", "5", "6", "7", "8", "9"}

DigitVal(c) ==
    CASE c = "0" -> 0 [] c = "1" -> 1 [] c = "2" -> 2 [] c = "3" -> 3
      [] c = "4" -> 4 [] c = "5" -> 5 [] c = "6" -> 6 [] c = "7" -> 7
      [] c = "8" -> 8 [] c = "9" -> 9

AllDigits(text) == \A k \in 1..Len(text) : IsDigit(CharAt(text, k))

RECURSIVE DigitsVal(_)
DigitsVal(text) ==
    IF text = "" THEN 0
    ELSE 10 * DigitsVal(SubSeq(text, 1, Len(text) - 1)) + DigitVal(CharAt(text, Len(text)))

\* int(text): [ok, n]; n is the integer itself (not tenths)
ParseInt(text) ==
    LET Negative(stripped) == stripped # "" /\ CharAt(stripped, 1) = "-"
        Signed(stripped) == stripped # "" /\ CharAt(stripped, 1) \in {"+", "-"}
        Digits(stripped) ==
            IF Signed(stripped) THEN SubSeq(stripped, 2, Len(stripped)) ELSE stripped
        Value(negative, magnitude) == IF negative THEN 0 - magnitude ELSE magnitude
        Convert(negative, digits) ==
            IF digits # "" /\ AllDigits(digits)
            THEN [ok |-> TRUE, n |-> Value(negative, DigitsVal(digits))]
            ELSE [ok |-> FALSE, n |-> 0]
        OnStripped(stripped) == Convert(Negative(stripped), Digits(stripped))
    IN  OnStripped(Strip(text))

\* float(text) on decimal notation: [ok, n], n in tenths
ParseFloat(text) ==
    LET Negative(stripped) == stripped # "" /\ CharAt(stripped, 1) = "-"
        Signed(stripped) == stripped # "" /\ CharAt(stripped, 1) \in {"+", "-"}
        Body(stripped) ==
            IF Signed(stripped) THEN SubSeq(stripped, 2, Len(stripped)) ELSE stripped
        Whole(body, dot) == IF dot = 0 THEN body ELSE SubSeq(body, 1, dot - 1)
        Frac(body, dot) == IF dot = 0 THEN "" ELSE SubSeq(body, dot + 1, Len(body))
        Value(negative, magnitude) == IF negative THEN 0 - magnitude ELSE magnitude
        Convert(negative, whole, frac) ==
            IF AllDigits(whole) /\ AllDigits(frac) /\ (whole # "" \/ frac # "")
            THEN [ok |-> TRUE,
                  n |-> Value(negative,
                              10 * DigitsVal(whole)
                              + (IF frac = "" THEN 0 ELSE DigitVal(CharAt(frac, 1))))]
            ELSE [ok |-> FALSE, n |-> 0]
        OnDot(negative, body, dot) == Convert(negative, Whole(body, dot), Frac(body, dot))
        OnBody(negative, body) == OnDot(negative, body, FindFrom(body, ".", 1))
        OnStripped(stripped) == OnBody(Negative(stripped), Body(stripped))
    IN  OnStripped(Strip(text))

\* float(v): [exc, n]; exc is <<>> or the exception raised
ToFloat(v) ==
    LET Converted(parsed) ==
            IF parsed.ok THEN [exc |-> Nothing, n |-> parsed.n]
            ELSE [exc |-> Some("ValueError"), n |-> 0]
    IN  CASE IsNumber(v) -> [exc |-> Nothing, n |-> v.n]
          [] v.t = "str" -> Converted(ParseFloat(v.s))
          [] OTHER -> [exc |-> Some("TypeError"), n |-> 0]

\* repr of a number in tenths as Python prints a float
FloatStr(tenths) ==
    LET a == IF tenths < 0 THEN 0 - tenths ELSE tenths
    IN  (IF tenths < 0 THEN "-" ELSE "") \o ToString(a \div 10) \o "." \o ToString(a % 10)

RECURSIVE JoinRepr(_)
\* str(v)
ToStr(v) ==
    CASE v.t = "str" -> v.s
      [] v.t = "none" -> "None"
      [] v.t = "bool" -> IF v.n # 0 THEN "True" ELSE "False"
      [] v.t = "int" -> ToString(v.n \div 10)
      [] v.t = "float" -> FloatStr(v.n)
      [] v.t = "list" -> "[" \o JoinRepr(v.l) \o "]"
      [] OTHER -> "{}"

JoinRepr(items) ==
    IF items = <<>> THEN ""
    ELSE LET h == Head(items)
             r == IF h.t = "str" THEN "'" \o h.s \o "'" ELSE ToStr(h)
         IN  IF Len(items) = 1 THEN r ELSE r \o ", " \o JoinRepr(Tail(items))

----------------------------------------------------------------------------
(* Regular expressions: Python's re on the patterns the structures use *)

MAX_REGEX_PATTERN_LENGTH == 200

MAX_WORKERS == 2

RECURSIVE Repeat(_, _)
Repeat(c, k) ==
    LET Twice(half) == half \o half \o (IF k % 2 = 1 THEN c ELSE "")
    IN  IF k = 0 THEN "" ELSE Twice(Repeat(c, k \div 2))

IsMeta(c) ==
    c \in {".", "^", "$", "*", "+", "?", "{", "}", "[", "]", "\\", "|", "(", ")"}

IsLiteral(pattern) == \A k \in 1..Len(pattern) : ~IsMeta(CharAt(pattern, k))

\* the pattern is one character with a repeat count: c{digits}
IsCounted(pattern) ==
    /\ Len(pattern) >= 4
    /\ ~IsMeta(CharAt(pattern, 1))
    /\ CharAt(pattern, 2) = "{"
    /\ CharAt(pattern, Len(pattern)) = "}"
    /\ AllDigits(SubSeq(pattern, 3, Len(pattern) - 1))

\* the repeat count of c{digits}, without its leading zeros
RECURSIVE CountDigits(_)
CountDigits(digits) ==
    IF Len(digits) > 1 /\ CharAt(digits, 1) = "0"
    THEN CountDigits(SubSeq(digits, 2, Len(digits)))
    ELSE digits

\* a < b for two numerals of the same length
RECURSIVE NumeralLess(_, _)
NumeralLess(a, b) ==
    IF a = "" THEN FALSE
    ELSE IF CharAt(a, 1) # CharAt(b, 1) THEN DigitVal(CharAt(a, 1)) < DigitVal(CharAt(b, 1))
    ELSE NumeralLess(SubSeq(a, 2, Len(a)), SubSeq(b, 2, Len(b)))

\* sre_constants.MAXREPEAT
MAXREPEAT == "4294967295"

\* the repeat count is MAXREPEAT or more
CountTooLarge(pattern) ==
    LET Large(digits) ==
            \/ Len(digits) > Len(MAXREPEAT)
            \/ Len(digits) = Len(MAXREPEAT) /\ ~NumeralLess(digits, MAXREPEAT)
    IN  IsCounted(pattern) /\ Large(CountDigits(SubSeq(pattern, 3, Len(pattern) - 1)))

\* re.compile(pattern) succeeds: a literal, ^literal, a counted character or
\* the nested quantifier
ReCompiles(pattern) ==
    \/ IsLiteral(pattern)
    \/ StartsWith(pattern, "^") /\ IsLiteral(SubSeq(pattern, 2, Len(pattern)))
    \/ IsCounted(pattern) /\ ~CountTooLarge(pattern)
    \/ pattern = "(a+)+$"

\* re.compile(pattern): "ok", or the exception it raises
ReCompile(pattern) ==
    IF CountTooLarge(pattern) THEN "OverflowError"
    ELSE IF ReCompiles(pattern) THEN "ok"
    ELSE "error"

\* bool(compiled.search(text))
ReSearch(pattern, text) ==
    LET Run(digits) ==
            IF Len(digits) > Len(ToString(Len(text))) THEN FALSE
            ELSE IF DigitsVal(digits) = 0 THEN TRUE
            ELSE Contains(text, Repeat(CharAt(pattern, 1), DigitsVal(digits)))
    IN  CASE pattern = "(a+)+$" -> text # "" /\ CharAt(text, Len(text)) = "a"
          [] IsCounted(pattern) -> Run(CountDigits(SubSeq(pattern, 3, Len(pattern) - 1)))
          [] StartsWith(pattern, "^") -> StartsWith(text, SubSeq(pattern, 2, Len(pattern)))
          [] OTHER -> Contains(text, pattern)

\* the search outlives the time budget: (a+)+$ backtracks exponentially
\* on a run of 25 or more a's that another character follows
ReSlow(pattern, text) ==
    /\ pattern = "(a+)+$"
    /\ \E k \in 1..(Len(text) - 25) :
           /\ SubSeq(text, k, k + 24) = Repeat("a", 25)
           /\ CharAt(text, k + 25) # "a"

\* _safe_regex_match under the state p of the shared executor: [exc, res,
\* pool].  p.busy workers are running a search, p.queue holds the searches no
\* worker has taken yet; p.inline is the scheduling of this call: TRUE when
\* the worker thread runs a search to its end before the calling thread
\* resumes (the caller then gets the result, however long the search took),
\* FALSE when the caller resumes at the end of the time budget.
SafeRegexMatch(pattern, text, p) ==
    IF Len(pattern) > MAX_REGEX_PATTERN_LENGTH
    THEN [exc |-> Nothing, res |-> FALSE, pool |-> p]
    ELSE IF ReCompile(pattern) = "error" THEN [exc |-> Nothing, res |-> FALSE, pool |-> p]
    ELSE IF ReCompile(pattern) # "ok"
    THEN \* except re.error does not catch it
         [exc |-> Some(ReCompile(pattern)), res |-> FALSE, pool |-> p]
    ELSE IF p.busy >= MAX_WORKERS
    THEN \* no worker takes the search within the budget: TimeoutError
         [exc |-> Nothing, res |-> FALSE,
          pool |-> [p EXCEPT !.queue = Append(@, ReSlow(pattern, text))]]
    ELSE IF ReSlow(pattern, text) /\ ~p.inline
    THEN \* TimeoutError; the worker keeps running the search
         [exc |-> Nothing, res |-> FALSE, pool |-> [p EXCEPT !.busy = @ + 1]]
    ELSE [exc |-> Nothing, res |-> ReSearch(pattern, text), pool |-> p]

----------------------------------------------------------------------------
(* CVSS vector decoder (app/engine/cvss.py) *)

NLH == [N |-> "None", L |-> "Low", H |-> "High"]

CVSS_31_METRICS ==
    [AV |-> [field |-> "cvss_av",
             values |-> [N |-> "Network", A |-> "Adjacent", L |-> "Local", P |-> "Physical"]],
     AC |-> [field |-> "cvss_ac", values |-> [L |-> "Low", H |-> "High"]],
     PR |-> [field |-> "cvss_pr", values |-> NLH],
     UI |-> [field |-> "cvss_ui", values |-> [N |-> "None", R |-> "Required"]],
     S |-> [field |-> "cvss_s", values |-> [U |-> "Unchanged", C |-> "Changed"]],
     C |-> [field |-> "cvss_c", values |-> NLH],
     I |-> [field |-> "cvss_i", values |-> NLH],
     A |-> [field |-> "cvss_a", values |-> NLH]]

CVSS_40_METRICS ==
    [AV |-> [field |-> "cvss_av",
             values |-> [N |-> "Network", A |-> "Adjacent", L |-> "Local", P |-> "Physical"]],
     AC |-> [field |-> "cvss_ac", values |-> [L |-> "Low", H |-> "High"]],
     AT |-> [field |-> "cvss_at", values |-> [N |-> "None", P |-> "Present"]],
     PR |-> [field |-> "cvss_pr", values |-> NLH],
     UI |-> [field |-> "cvss_ui", values |-> [N |-> "None", P |-> "Passive", A |-> "Active"]],
     VC |-> [field |-> "cvss_vc", values |-> NLH],
     VI |-> [field |-> "cvss_vi", values |-> NLH],
     VA |-> [field |-> "cvss_va", values |-> NLH],
     SC |-> [field |-> "cvss_sc", values |-> NLH],
     SI |-> [field |-> "cvss_si", values |-> NLH],
     SA |-> [field |-> "cvss_sa", values |-> NLH]]

UpperChar(c) ==
    CASE c = "a" -> "A" [] c = "b" -> "B" [] c = "c" -> "C" [] c = "d" -> "D"
      [] c = "e" -> "E" [] c = "f" -> "F" [] c = "g" -> "G" [] c = "h" -> "H"
      [] c = "i" -> "I" [] c = "j" -> "J" [] c = "k" -> "K" [] c = "l" -> "L"
      [] c = "m" -> "M" [] c = "n" -> "N" [] c = "o" -> "O" [] c = "p" -> "P"
      [] c = "q" -> "Q" [] c = "r" -> "R" [] c = "s" -> "S" [] c = "t" -> "T"
      [] c = "u" -> "U" [] c = "v" -> "V" [] c = "w" -> "W" [] c = "x" -> "X"
      [] c = "y" -> "Y" [] c = "z" -> "Z" [] OTHER -> c

\* text.upper()
RECURSIVE Upper(_)
Upper(text) ==
    IF text = "" THEN ""
    ELSE UpperChar(CharAt(text, 1)) \o Upper(SubSeq(text, 2, Len(text)))

\* text.replace(old, ""), old not empty
RECURSIVE Remove(_, _)
Remove(text, old) ==
    IF Len(text) < Len(old) THEN text
    ELSE IF StartsWith(text, old) THEN Remove(SubSeq(text, Len(old) + 1, Len(text)), old)
    ELSE CharAt(text, 1) \o Remove(SubSeq(text, 2, Len(text)), old)

\* detect_cvss_version without the branch of "CVSS:3.0/"
DetectCvssVersionWithout30(vector) ==
    IF ~Truthy(vector) \/ vector.t # "str" THEN Nothing
    ELSE LET vector_upper == Strip(Upper(vector.s))
         IN  IF StartsWith(vector_upper, "CVSS:4.0/") THEN Some("4.0")
             ELSE IF StartsWith(vector_upper, "CVSS:3.1/") THEN Some("3.1")
             ELSE Nothing

\* detect_cvss_version: <<>> (None), <<"3.1">> or <<"4.0">>
DetectCvssVersion(vector) ==
    IF ~Truthy(vector) \/ vector.t # "str" THEN Nothing
    ELSE LET vector_upper == Strip(Upper(vector.s))
         IN  IF StartsWith(vector_upper, "CVSS:4.0/") THEN Some("4.0")
             ELSE IF StartsWith(vector_upper, "CVSS:3.1/") THEN Some("3.1")
             ELSE IF StartsWith(vector_upper, "CVSS:3.0/") THEN Some("3.1")
             ELSE Nothing

\* the loop of parse_cvss_vector over parts, filling result (field -> value)
RECURSIVE ParseParts(_, _, _)
ParseParts(parts, metrics_map, result) ==
    IF parts = <<>> THEN result
    ELSE LET part == Head(parts)
             colon == FindFrom(part, ":", 1)
             abbrev == Strip(SubSeq(part, 1, colon - 1))
             value == Strip(SubSeq(part, colon + 1, Len(part)))
             entry == metrics_map[abbrev]
             readable ==
                 IF value \in DOMAIN entry.values THEN entry.values[value] ELSE value
         IN  IF colon = 0 \/ abbrev \notin DOMAIN metrics_map
             THEN ParseParts(Tail(parts), metrics_map, result)
             ELSE ParseParts(Tail(parts), metrics_map,
                     [f \in DOMAIN result \cup {entry.field} |->
                         IF f = entry.field THEN readable ELSE result[f]])

\* parse_cvss_vector: the dict field -> readable value
ParseCvssVector(vector) ==
    LET version == DetectCvssVersion(vector)
        vector_upper == Strip(Upper(vector.s))
    IN  IF version = Nothing THEN <<>>
        ELSE IF version[1] = "4.0"
        THEN ParseParts(Split(Remove(vector_upper, "CVSS:4.0/"), "/"), CVSS_40_METRICS, <<>>)
        ELSE ParseParts(Split(Remove(Remove(vector_upper, "CVSS:3.1/"), "CVSS:3.0/"), "/"),
                        CVSS_31_METRICS, <<>>)

\* is_cvss_field
IsCvssField(field_name) ==
    /\ field_name \notin {"cvss_score", "cvss_vector"}
    /\ StartsWith(field_name, "cvss_")
    /\ field_name \in {CVSS_31_METRICS[a].field : a \in DOMAIN CVSS_31_METRICS}
                      \cup {CVSS_40_METRICS[a].field : a \in DOMAIN CVSS_40_METRICS}

----------------------------------------------------------------------------
(* Conditions (BaseNode) *)

\* vuln_data.get(field): vuln_data is vulnerability.model_dump()
VulnGet(vuln, field) ==
    IF field = "extra" THEN PyDict
    ELSE IF field \in DOMAIN vuln.fields THEN vuln.fields[field]
    ELSE PyNone

\* vuln_data["extra"].get(field)
ExtraGet(vuln, field) ==
    IF field \in DOMAIN vuln.extra THEN vuln.extra[field] ELSE PyNone

\* _get_field_value with the extra map read before the declared field
GetFieldValueExtraFirst(context, field) ==
    LET Or(declared, extra) == IF declared.t = "none" THEN extra ELSE declared
        Derived(parsed) == IF field \in DOMAIN parsed THEN PyStrV(parsed[field]) ELSE PyNone
        Resolve(value, cvss_vector) ==
            IF value.t = "none" /\ IsCvssField(field) /\ Truthy(cvss_vector)
            THEN Derived(ParseCvssVector(cvss_vector))
            ELSE value
        Get(vuln_data) ==
            Resolve(Or(ExtraGet(vuln_data, field), VulnGet(vuln_data, field)),
                    Or(VulnGet(vuln_data, "cvss_vector"), ExtraGet(vuln_data, "cvss_vector")))
    IN  Get(context.vulnerability)

\* BaseNode._get_field_value
GetFieldValue(context, field) ==
    LET Or(declared, extra) == IF declared.t = "none" THEN extra ELSE declared
        Derived(parsed) == IF field \in DOMAIN parsed THEN PyStrV(parsed[field]) ELSE PyNone
        Resolve(value, cvss_vector) ==
            IF value.t = "none" /\ IsCvssField(field) /\ Truthy(cvss_vector)
            THEN Derived(ParseCvssVector(cvss_vector))
            ELSE value
        Get(vuln_data) ==
            Resolve(Or(VulnGet(vuln_data, field), ExtraGet(vuln_data, field)),
                    Or(VulnGet(vuln_data, "cvss_vector"), ExtraGet(vuln_data, "cvss_vector")))
    IN  Get(context.vulnerability)

\* _evaluate_simple without the test of a null value
EvaluateSimpleNoNullTest(value, op, cond_value, p) ==
    LET ret(b) == [exc |-> Nothing, res |-> b, pool |-> p]
        Ordering(fv, fc) ==
            IF fv.exc # Nothing THEN [exc |-> fv.exc, res |-> FALSE, pool |-> p]
            ELSE IF fc.exc # Nothing THEN [exc |-> fc.exc, res |-> FALSE, pool |-> p]
            ELSE ret(CASE op = "gt" -> fv.n > fc.n
                       [] op = "gte" -> fv.n >= fc.n
                       [] op = "lt" -> fv.n < fc.n
                       [] OTHER -> fv.n <= fc.n)
        AmongParts(parts, text) == \E k \in 1..Len(parts) : parts[k] = text
        Member ==
            IF cond_value.t = "list"
            THEN \E k \in 1..Len(cond_value.l) : PyEq(value, cond_value.l[k])
            ELSE AmongParts(Split(ToStr(cond_value), ","), ToStr(value))
    IN  CASE op = "is_null" -> ret(value.t = "none")
          [] op = "is_not_null" -> ret(value.t # "none")
          [] op = "eq" -> ret(PyEq(value, cond_value))
          [] op = "neq" -> ret(~PyEq(value, cond_value))
          [] op \in {"gt", "gte", "lt", "lte"} -> Ordering(ToFloat(value), ToFloat(cond_value))
          [] op \in {"contains", "not_contains"} ->
                ret(Contains(ToStr(value), ToStr(cond_value)) <=> op = "contains")
          [] op = "regex" -> SafeRegexMatch(ToStr(cond_value), ToStr(value), p)
          [] op \in {"in", "not_in"} -> ret(Member <=> op = "in")
          [] OTHER -> ret(FALSE)

\* BaseNode._evaluate_simple: [exc, res, pool]
EvaluateSimple(value, op, cond_value, p) ==
    LET ret(b) == [exc |-> Nothing, res |-> b, pool |-> p]
        Ordering(fv, fc) ==
            IF fv.exc # Nothing THEN [exc |-> fv.exc, res |-> FALSE, pool |-> p]
            ELSE IF fc.exc # Nothing THEN [exc |-> fc.exc, res |-> FALSE, pool |-> p]
            ELSE ret(CASE op = "gt" -> fv.n > fc.n
                       [] op = "gte" -> fv.n >= fc.n
                       [] op = "lt" -> fv.n < fc.n
                       [] OTHER -> fv.n <= fc.n)
        AmongParts(parts, text) == \E k \in 1..Len(parts) : parts[k] = text
        Member ==
            IF cond_value.t = "list"
            THEN \E k \in 1..Len(cond_value.l) : PyEq(value, cond_value.l[k])
            ELSE AmongParts(Split(ToStr(cond_value), ","), ToStr(value))
    IN  CASE op = "is_null" -> ret(value.t = "none")
          [] op = "is_not_null" -> ret(value.t # "none")
          [] value.t = "none" -> ret(FALSE)
          [] op = "eq" -> ret(PyEq(value, cond_value))
          [] op = "neq" -> ret(~PyEq(value, cond_value))
          [] op \in {"gt", "gte", "lt", "lte"} -> Ordering(ToFloat(value), ToFloat(cond_value))
          [] op \in {"contains", "not_contains"} ->
                ret(Contains(ToStr(value), ToStr(cond_value)) <=> op = "contains")
          [] op = "regex" -> SafeRegexMatch(ToStr(cond_value), ToStr(value), p)
          [] op \in {"in", "not_in"} -> ret(Member <=> op = "in")
          [] OTHER -> ret(FALSE)

\* BaseNode._evaluate_criterion: [exc, res, pool]
EvaluateCriterion(criterion, default_value, context, p) ==
    EvaluateSimple(IF criterion.field # Nothing
                   THEN GetFieldValue(context, criterion.field[1])
                   ELSE default_value,
                   criterion.operator, criterion.value, p)

\* the list comprehension of _evaluate_condition: [exc, results, pool];
\* every criterion is evaluated, the first exception ends it
RECURSIVE EvaluateCriteria(_, _, _, _, _)
EvaluateCriteria(criteria, value, context, p, results) ==
    LET Then(r) ==
            IF r.exc # Nothing
            THEN [exc |-> r.exc, results |-> results, pool |-> r.pool]
            ELSE EvaluateCriteria(Tail(criteria), value, context, r.pool,
                                  Append(results, r.res))
    IN  IF criteria = <<>> THEN [exc |-> Nothing, results |-> results, pool |-> p]
        ELSE Then(EvaluateCriterion(Head(criteria), value, context, p))

\* BaseNode._evaluate_condition: [exc, res, pool]
EvaluateCondition(value, condition, context, p) ==
    LET Combine(c) ==
            [exc |-> c.exc,
             res |-> /\ c.exc = Nothing
                     /\ IF condition.logic[1] = "AND"
                        THEN \A k \in 1..Len(c.results) : c.results[k]
                        ELSE \E k \in 1..Len(c.results) : c.results[k],
             pool |-> c.pool]
    IN  IF condition.logic # Nothing /\ condition.criteria # <<>>
        THEN Combine(EvaluateCriteria(condition.criteria, value, context, p, <<>>))
        ELSE IF condition.operator # Nothing
        THEN EvaluateSimple(value, condition.operator[1], condition.value, p)
        ELSE [exc |-> Nothing, res |-> FALSE, pool |-> p]

\* match_condition keeping the last condition whose predicate is true
RECURSIVE MatchFromLast(_, _, _, _, _)
MatchFromLast(conditions, idx, value, context, p) ==
    LET Here(r, rest) ==
            IF r.exc # Nothing THEN [exc |-> r.exc, match |-> Nothing, pool |-> r.pool]
            ELSE IF rest.exc # Nothing \/ rest.match # Nothing THEN rest
            ELSE IF r.res
            THEN [exc |-> Nothing,
                  match |-> Some([index |-> idx, label |-> conditions[idx + 1].label]),
                  pool |-> r.pool]
            ELSE rest
    IN  IF idx >= Len(conditions) THEN [exc |-> Nothing, match |-> Nothing, pool |-> p]
        ELSE Here(EvaluateCondition(value, conditions[idx + 1], context, p),
                  MatchFromLast(conditions, idx + 1, value, context, p))

\* BaseNode.match_condition from index idx (0-based) on: [exc, match, pool],
\* match is <<>> (None) or <<[index, label]>>
RECURSIVE MatchFrom(_, _, _, _, _)
MatchFrom(conditions, idx, value, context, p) ==
    LET Then(r) ==
            IF r.exc # Nothing THEN [exc |-> r.exc, match |-> Nothing, pool |-> r.pool]
            ELSE IF r.res
            THEN [exc |-> Nothing,
                  match |-> Some([index |-> idx, label |-> conditions[idx + 1].label]),
                  pool |-> r.pool]
            ELSE MatchFrom(conditions, idx + 1, value, context, r.pool)
    IN  IF idx >= Len(conditions) THEN [exc |-> Nothing, match |-> Nothing, pool |-> p]
        ELSE Then(EvaluateCondition(value, conditions[idx + 1], context, p))

MatchCondition(node, value, context, p) == MatchFrom(node.conditions, 0, value, context, p)

----------------------------------------------------------------------------
(* Formulas (app/engine/formula.py).  A parsed formula is the tree that      *)
(* ast.parse(preprocessed, mode="eval") returns; a node of it is            *)
(* [kind, ops, val, id, kids, keywords]: kind is the ast class, ops the      *)
(* operator classes, val the value of a Constant, id the name of a Name or  *)
(* the attribute of an Attribute, kids the child nodes in the order of the  *)
(* ast fields, keywords the number of keyword arguments of a Call.          *)
(* A number is [k, num, den]: the exact value num / den of kind k (den > 0). *)

FInt(i) == [k |-> "int", num |-> i, den |-> 1]

FFloat(num, den) == [k |-> "float", num |-> num, den |-> den]

FBool(b) == [k |-> "bool", num |-> IF b THEN 1 ELSE 0, den |-> 1]

\* a value that is no real number: None, a str, a complex, a list, a
\* function, or an int beyond the range of float ("big")
FOther(kind) == [k |-> kind, num |-> 0, den |-> 1]

AstNode(kind, ops, val, id, kids, keywords) ==
    [kind |-> kind, ops |-> ops, val |-> val, id |-> id, kids |-> kids,
     keywords |-> keywords]

Constant(val) == AstNode("Constant", <<>>, val, "", <<>>, 0)

Name(id) == AstNode("Name", <<>>, FOther("none"), id, <<>>, 0)

UnaryOp(op, operand) == AstNode("UnaryOp", <<op>>, FOther("none"), "", <<operand>>, 0)

BinOp(left, op, right) == AstNode("BinOp", <<op>>, FOther("none"), "", <<left, right>>, 0)

Compare(left, ops, comparators) ==
    AstNode("Compare", ops, FOther("none"), "", <<left>> \o comparators, 0)

BoolOp(op, values) == AstNode("BoolOp", <<op>>, FOther("none"), "", values, 0)

IfExp(test, body, orelse) ==
    AstNode("IfExp", <<>>, FOther("none"), "", <<test, body, orelse>>, 0)

Call(func, args, keywords) ==
    AstNode("Call", <<>>, FOther("none"), "", <<func>> \o args, keywords)

\* an ast class _validate_node has no branch for, with its child expressions
OtherNode(kind, id, kids) == AstNode(kind, <<>>, FOther("none"), id, kids, 0)

Expression(body) == AstNode("Expression", <<>>, FOther("none"), "", <<body>>, 0)

ALLOWED_FUNCTIONS == {"min", "max", "abs", "round"}

\* _validate_node with the fall-through branch accepting the node
RECURSIVE ValidateNodeAllowByDefault(_)
ValidateNodeAllowByDefault(node) ==
    LET First(results) ==
            IF \E k \in 1..Len(results) : results[k] # Nothing
            THEN results[CHOOSE k \in 1..Len(results) :
                             /\ results[k] # Nothing
                             /\ \A j \in 1..(k - 1) : results[j] = Nothing]
            ELSE Nothing
        Kids(nodes) == First([k \in 1..Len(nodes) |-> ValidateNodeAllowByDefault(nodes[k])])
    IN  CASE node.kind = "Constant" ->
                IF node.val.k \notin {"int", "float", "bool", "big"}
                THEN Some("Type de litteral non autorise") ELSE Nothing
          [] node.kind = "Name" -> Nothing
          [] node.kind = "UnaryOp" ->
                IF node.ops[1] \notin {"UAdd", "USub", "Not"}
                THEN Some("Operateur unaire non autorise") ELSE Kids(node.kids)
          [] node.kind = "BinOp" ->
                IF node.ops[1] \notin {"Add", "Sub", "Mult", "Div", "Pow", "Mod", "FloorDiv"}
                THEN Some("Operateur binaire non autorise") ELSE Kids(node.kids)
          [] node.kind = "Compare" ->
                IF \E k \in 1..Len(node.ops) :
                       node.ops[k] \notin {"Lt", "LtE", "Gt", "GtE", "Eq", "NotEq"}
                THEN Some("Operateur de comparaison non autorise") ELSE Kids(node.kids)
          [] node.kind \in {"BoolOp", "IfExp", "Expression"} -> Kids(node.kids)
          [] node.kind = "Call" ->
                IF node.kids[1].kind # "Name"
                THEN Some("Seuls les appels de fonctions simples sont autorises")
                ELSE IF node.kids[1].id \notin ALLOWED_FUNCTIONS
                THEN Some("Fonction non autorisee")
                ELSE IF node.keywords > 0
                THEN Some("Les arguments nommes ne sont pas autorises dans les fonctions")
                ELSE Kids(Tail(node.kids))
          [] OTHER -> Kids(node.kids)

\* _validate_node: <<>> when it returns, <<msg>> when it raises FormulaError
RECURSIVE ValidateNode(_)
ValidateNode(node) ==
    LET First(results) ==
            IF \E k \in 1..Len(results) : results[k] # Nothing
            THEN results[CHOOSE k \in 1..Len(results) :
                             /\ results[k] # Nothing
                             /\ \A j \in 1..(k - 1) : results[j] = Nothing]
            ELSE Nothing
        Kids(nodes) == First([k \in 1..Len(nodes) |-> ValidateNode(nodes[k])])
    IN  CASE node.kind = "Constant" ->
                IF node.val.k \notin {"int", "float", "bool", "big"}
                THEN Some("Type de litteral non autorise") ELSE Nothing
          [] node.kind = "Name" -> Nothing
          [] node.kind = "UnaryOp" ->
                IF node.ops[1] \notin {"UAdd", "USub", "Not"}
                THEN Some("Operateur unaire non autorise") ELSE Kids(node.kids)
          [] node.kind = "BinOp" ->
                IF node.ops[1] \notin {"Add", "Sub", "Mult", "Div", "Pow", "Mod", "FloorDiv"}
                THEN Some("Operateur binaire non autorise") ELSE Kids(node.kids)
          [] node.kind = "Compare" ->
                IF \E k \in 1..Len(node.ops) :
                       node.ops[k] \notin {"Lt", "LtE", "Gt", "GtE", "Eq", "NotEq"}
                THEN Some("Operateur de comparaison non autorise") ELSE Kids(node.kids)
          [] node.kind \in {"BoolOp", "IfExp", "Expression"} -> Kids(node.kids)
          [] node.kind = "Call" ->
                IF node.kids[1].kind # "Name"
                THEN Some("Seuls les appels de fonctions simples sont autorises")
                ELSE IF node.kids[1].id \notin ALLOWED_FUNCTIONS
                THEN Some("Fonction non autorisee")
                ELSE IF node.keywords > 0
                THEN Some("Les arguments nommes ne sont pas autorises dans les fonctions")
                ELSE Kids(Tail(node.kids))
          [] OTHER -> Some("Construction non autorisee dans la formule")

(* The numbers of an evaluation.  Arithmetic is exact on num / den; an int   *)
(* that no float can hold is FOther("big") (its digits are not kept).  The  *)
(* operations have no case for operands they do not keep exactly: a formula *)
(* of Formulas never reaches one.                                           *)

Abs(i) == IF i < 0 THEN 0 - i ELSE i

RECURSIVE Gcd(_, _)
Gcd(a, b) == IF b = 0 THEN a ELSE Gcd(b, a % b)

\* the number num / den of kind k in lowest terms
Num(k, num, den) ==
    LET Reduced(g) == [k |-> k, num |-> num \div g, den |-> den \div g]
    IN  Reduced(Gcd(Abs(num), den))

IsReal(v) == v.k \in {"int", "float", "bool"}

\* the kind of the result of an arithmetic operator
Wider(a, b) == IF a.k = "float" \/ b.k = "float" THEN "float" ELSE "int"

\* bool(v)
FTruthy(v) == IF IsReal(v) THEN v.num # 0 ELSE TRUE

FLess(a, b) == a.num * b.den < b.num * a.den

FEqual(a, b) == a.num * b.den = b.num * a.den

\* the number of bits of a natural number
RECURSIVE BitLength(_)
BitLength(i) == IF i = 0 THEN 0 ELSE 1 + BitLength(i \div 2)

RECURSIVE IntPower(_, _)
IntPower(base, exponent) ==
    IF exponent = 0 THEN 1 ELSE base * IntPower(base, exponent - 1)

\* the exponent of the largest float: 2 ** 1024 overflows
FloatMaxExp == 1024

\* m * 2 ** e with m cut to fifteen bits: a lower bound of the number
RECURSIVE Scale(_)
Scale(p) == IF p.m >= 32768 THEN Scale([m |-> p.m \div 2, e |-> p.e + 1]) ELSE p

\* a lower bound of p ** n (n > 0), by squaring
RECURSIVE PowerLow(_, _)
PowerLow(p, n) ==
    LET Times(x, y) == Scale([m |-> x.m * y.m, e |-> x.e + y.e])
        Square(h) == IF n % 2 = 1 THEN Times(Times(h, h), p) ELSE Times(h, h)
    IN  IF n = 1 THEN p ELSE Square(PowerLow(p, n \div 2))

\* |a| ** n is beyond the range of float
BeyondFloat(a, n) ==
    LET Bits(p) == p.e + BitLength(p.m) - 1
    IN  Bits(PowerLow(Scale([m |-> (Abs(a.num) * 4096) \div a.den, e |-> 0 - 12]), n))
            >= FloatMaxExp

Value(v) == [exc |-> Nothing, v |-> v]

Raise(kind) == [exc |-> Some(kind), v |-> FOther("none")]

\* a ** b
Power(a, b) ==
    LET whole == Abs(a.num) \div a.den
        Exact(exponent) ==
            IF exponent >= 0
            THEN Value(Num(Wider(a, b), IntPower(a.num, exponent), IntPower(a.den, exponent)))
            ELSE Value(Num("float",
                           (IF a.num < 0 /\ exponent % 2 # 0 THEN 0 - 1 ELSE 1)
                               * IntPower(a.den, 0 - exponent),
                           IntPower(Abs(a.num), 0 - exponent)))
    IN  CASE ~({a.k, b.k} \subseteq {"int", "bool", "float", "big", "complex"}) -> Raise("TypeError")
          [] {a.k, b.k} = {"big", "float"} -> Raise("OverflowError")
          [] a.k = "big" /\ b.k \in {"int", "bool"} /\ b.num > 0 -> Value(FOther("big"))
          [] IsReal(a) /\ IsReal(b) /\ a.num = 0 /\ b.num < 0 -> Raise("ZeroDivisionError")
          [] IsReal(a) /\ IsReal(b) /\ a.num < 0 /\ b.den # 1 -> Value(FOther("complex"))
          [] IsReal(a) /\ IsReal(b) /\ ~(a.num = 0 /\ b.num < 0) /\ b.den = 1
                /\ Abs(b.num) * (BitLength(Abs(a.num)) + BitLength(a.den)) <= 30 ->
                Exact(b.num)
          [] IsReal(a) /\ IsReal(b) /\ b.den = 1 /\ b.num > 0 /\ whole >= 2
                /\ BeyondFloat(a, b.num) ->
                IF Wider(a, b) = "float" THEN Raise("OverflowError")
                ELSE Value(FOther("big"))

\* left op right of a BinOp
BinaryOperation(op, a, b) ==
    LET Quotient == (a.num * b.den) \div (a.den * b.num)
        Floor == IF b.num < 0 THEN (0 - (a.num * b.den)) \div (a.den * (0 - b.num))
                 ELSE Quotient
    IN  CASE op = "Pow" -> Power(a, b)
          [] op # "Pow" /\ ~({a.k, b.k} \subseteq {"int", "bool", "float", "big", "complex"}) ->
                Raise("TypeError")
          [] op # "Pow" /\ "big" \in {a.k, b.k} /\ "float" \in {a.k, b.k} ->
                Raise("OverflowError")
          [] op \in {"Add", "Sub"} /\ "big" \in {a.k, b.k} /\ {a.k, b.k} # {"big"}
                /\ "float" \notin {a.k, b.k} ->
                Value(FOther("big"))
          [] op = "Mult" /\ "big" \in {a.k, b.k} /\ "float" \notin {a.k, b.k} ->
                IF (a.k # "big" /\ a.num = 0) \/ (b.k # "big" /\ b.num = 0)
                THEN Value(FInt(0)) ELSE Value(FOther("big"))
          [] op \in {"FloorDiv", "Mod"} /\ a.k = "big" /\ b.k \in {"int", "bool"}
                /\ b.num = 0 ->
                Raise("ZeroDivisionError")
          [] op = "Add" /\ IsReal(a) /\ IsReal(b) ->
                Value(Num(Wider(a, b), a.num * b.den + b.num * a.den, a.den * b.den))
          [] op = "Sub" /\ IsReal(a) /\ IsReal(b) ->
                Value(Num(Wider(a, b), a.num * b.den - b.num * a.den, a.den * b.den))
          [] op = "Mult" /\ IsReal(a) /\ IsReal(b) ->
                Value(Num(Wider(a, b), a.num * b.num, a.den * b.den))
          [] op \in {"Div", "FloorDiv", "Mod"} /\ IsReal(a) /\ IsReal(b) /\ b.num = 0 ->
                Raise("ZeroDivisionError")
          [] op = "Div" /\ IsReal(a) /\ IsReal(b) /\ b.num # 0 ->
                Value(Num("float",
                          (IF b.num < 0 THEN 0 - 1 ELSE 1) * a.num * b.den,
                          a.den * Abs(b.num)))
          [] op = "FloorDiv" /\ IsReal(a) /\ IsReal(b) /\ b.num # 0 ->
                Value(Num(Wider(a, b), Floor, 1))
          [] op = "Mod" /\ IsReal(a) /\ IsReal(b) /\ b.num # 0 ->
                Value(Num(Wider(a, b),
                          a.num * b.den - Floor * b.num * a.den, a.den * b.den))

IsFunction(v) == v.k \in ALLOWED_FUNCTIONS

\* left op right of one step of a Compare
CompareOperation(op, a, b) ==
    CASE IsReal(a) /\ IsReal(b) ->
            Value(FBool(CASE op = "Lt" -> FLess(a, b)
                          [] op = "LtE" -> ~FLess(b, a)
                          [] op = "Gt" -> FLess(b, a)
                          [] op = "GtE" -> ~FLess(a, b)
                          [] op = "Eq" -> FEqual(a, b)
                          [] op = "NotEq" -> ~FEqual(a, b)))
      [] (IsFunction(a) \/ IsFunction(b)) /\ op \in {"Eq", "NotEq"} ->
            Value(FBool(IF a = b THEN op = "Eq" ELSE op = "NotEq"))
      [] (IsFunction(a) \/ IsFunction(b)) /\ op \notin {"Eq", "NotEq"} ->
            Raise("TypeError")
      [] a.k = "big" /\ IsReal(b) -> Value(FBool(op \in {"Gt", "GtE", "NotEq"}))
      [] IsReal(a) /\ b.k = "big" -> Value(FBool(op \in {"Lt", "LtE", "NotEq"}))

\* op operand of a UnaryOp
UnaryOperation(op, a) ==
    CASE op = "Not" -> Value(FBool(~FTruthy(a)))
      [] op # "Not" /\ IsFunction(a) -> Raise("TypeError")
      [] op = "UAdd" /\ a.k = "big" -> Value(a)
      [] op = "UAdd" /\ IsReal(a) ->
            Value(Num(IF a.k = "bool" THEN "int" ELSE a.k, a.num, a.den))
      [] op = "USub" /\ IsReal(a) ->
            Value(Num(IF a.k = "bool" THEN "int" ELSE a.k, 0 - a.num, a.den))

\* the integer nearest to num / den, the even one of two
RoundHalfEven(num, den) ==
    LET q == num \div den
        r == num - q * den
    IN  IF 2 * r < den THEN q
        ELSE IF 2 * r > den THEN q + 1
        ELSE IF q % 2 = 0 THEN q ELSE q + 1

\* the builtin min, max, abs or round applied to positional arguments
CallFunction(f, args) ==
    LET n == Len(args)
        Digits(x, ndigits) ==
            IF x.k # "float" /\ ndigits >= 0
            THEN Value(Num("int", x.num, x.den))
            ELSE IF ndigits >= 0
            THEN Value(Num(x.k,
                           RoundHalfEven(x.num * IntPower(10, ndigits), x.den),
                           IntPower(10, ndigits)))
            ELSE Value(Num(IF x.k = "float" THEN "float" ELSE "int",
                           RoundHalfEven(x.num, x.den * IntPower(10, 0 - ndigits))
                               * IntPower(10, 0 - ndigits),
                           1))
        Best(smallest) ==
            args[CHOOSE k \in 1..n :
                     /\ \A j \in 1..n :
                            IF smallest THEN ~FLess(args[j], args[k])
                            ELSE ~FLess(args[k], args[j])
                     /\ \A j \in 1..(k - 1) :
                            IF smallest THEN FLess(args[k], args[j])
                            ELSE FLess(args[j], args[k])]
    IN  CASE f = "abs" /\ n # 1 -> Raise("TypeError")
          [] f = "abs" /\ n = 1 /\ IsFunction(args[1]) -> Raise("TypeError")
          [] f = "abs" /\ n = 1 /\ args[1].k = "big" -> Value(args[1])
          [] f = "abs" /\ n = 1 /\ IsReal(args[1]) ->
                Value(Num(IF args[1].k = "bool" THEN "int" ELSE args[1].k,
                          Abs(args[1].num), args[1].den))
          [] f = "round" /\ n \notin {1, 2} -> Raise("TypeError")
          [] f = "round" /\ n \in {1, 2} /\ IsFunction(args[1]) -> Raise("TypeError")
          [] f = "round" /\ n = 1 /\ args[1].k = "big" -> Value(args[1])
          [] f = "round" /\ n = 1 /\ IsReal(args[1]) ->
                Value(Num("int", RoundHalfEven(args[1].num, args[1].den), 1))
          [] f = "round" /\ n = 2 /\ IsReal(args[1]) /\ args[2].k \notin {"int", "bool", "big"} ->
                Raise("TypeError")
          [] f = "round" /\ n = 2 /\ IsReal(args[1]) /\ args[2].k \in {"int", "bool"} ->
                Digits(args[1], args[2].num)
          [] f \in {"min", "max"} /\ n < 2 -> Raise("TypeError")
          [] f \in {"min", "max"} /\ n >= 2 /\ \E k \in 1..n : IsFunction(args[k]) ->
                Raise("TypeError")
          [] f \in {"min", "max"} /\ n >= 2 /\ \A k \in 1..n : IsReal(args[k]) ->
                Value(Best(f = "min"))

\* eval of the compiled tree: [exc, v], exc is <<>> or the exception raised.
\* env is safe_vars; the names of safe_globals come after it
RECURSIVE EvalNode(_, _)
RECURSIVE EvalAll(_, _)
RECURSIVE EvalCompare(_, _, _, _)
RECURSIVE EvalBoolOp(_, _, _)
EvalNode(node, env) ==
    LET Unary(operand) ==
            IF operand.exc # Nothing THEN operand
            ELSE UnaryOperation(node.ops[1], operand.v)
        Binary(operands) ==
            IF operands.exc # Nothing THEN Raise(operands.exc[1])
            ELSE BinaryOperation(node.ops[1], operands.vs[1], operands.vs[2])
        Compared(left) ==
            IF left.exc # Nothing THEN left
            ELSE EvalCompare(left.v, node.ops, Tail(node.kids), env)
        Chosen(test) ==
            IF test.exc # Nothing THEN test
            ELSE IF FTruthy(test.v) THEN EvalNode(node.kids[2], env)
            ELSE EvalNode(node.kids[3], env)
        Called(operands) ==
            IF operands.exc # Nothing THEN Raise(operands.exc[1])
            ELSE IF ~IsFunction(operands.vs[1]) THEN Raise("TypeError")
            ELSE CallFunction(operands.vs[1].k, Tail(operands.vs))
    IN  CASE node.kind = "Constant" -> Value(node.val)
          [] node.kind = "Name" ->
                IF node.id \in DOMAIN env THEN Value(env[node.id])
                ELSE IF node.id \in ALLOWED_FUNCTIONS THEN Value(FOther(node.id))
                ELSE IF node.id \in {"True", "False"} THEN Value(FBool(node.id = "True"))
                ELSE Raise("NameError")
          [] node.kind = "UnaryOp" -> Unary(EvalNode(node.kids[1], env))
          [] node.kind = "BinOp" -> Binary(EvalAll(node.kids, env))
          [] node.kind = "Compare" -> Compared(EvalNode(node.kids[1], env))
          [] node.kind = "BoolOp" -> EvalBoolOp(node.ops[1], node.kids, env)
          [] node.kind = "IfExp" -> Chosen(EvalNode(node.kids[1], env))
          [] node.kind = "Call" -> Called(EvalAll(node.kids, env))
          [] node.kind = "Expression" -> EvalNode(node.kids[1], env)

\* the values of nodes, left to right, up to the first that raises
EvalAll(nodes, env) ==
    LET Rest(h, r) == [exc |-> r.exc, vs |-> <<h.v>> \o r.vs]
        OnHead(h) ==
            IF h.exc # Nothing THEN [exc |-> h.exc, vs |-> <<>>]
            ELSE Rest(h, EvalAll(Tail(nodes), env))
    IN  IF nodes = <<>> THEN [exc |-> Nothing, vs |-> <<>>]
        ELSE OnHead(EvalNode(Head(nodes), env))

\* left ops[1] comparators[1] ops[2] ..., stopping at the first false step
EvalCompare(left, ops, comparators, env) ==
    LET Step(right, result) ==
            IF result.exc # Nothing THEN result
            ELSE IF Len(ops) = 1 \/ ~FTruthy(result.v) THEN result
            ELSE EvalCompare(right, Tail(ops), Tail(comparators), env)
        OnRight(right) ==
            IF right.exc # Nothing THEN right
            ELSE Step(right.v, CompareOperation(ops[1], left, right.v))
    IN  OnRight(EvalNode(comparators[1], env))

\* a and b ..., a or b ...: the value of the operand that decides
EvalBoolOp(op, values, env) ==
    LET OnHead(h) ==
            IF h.exc # Nothing \/ Len(values) = 1 THEN h
            ELSE IF (op = "And") # FTruthy(h.v) THEN h
            ELSE EvalBoolOp(op, Tail(values), env)
    IN  OnHead(EvalNode(Head(values), env))

\* a sum of 3000 terms: ast.parse raises RecursionError ("maximum recursion
\* depth exceeded during ast construction") on it
DeepFormula == Repeat("1+", 2999) \o "1"

\* the formulas given to validate_formula and evaluate_formula, each with the
\* tree CPython's ast.parse(_preprocess_formula(text), mode="eval") returns
\* (<<>> when it raises)
Formulas ==
    <<
      [text |-> "cvss_score * 0.4 + epss_score * 100 * 0.3 + (kev ? 30 : 0)",
       tree |-> Some(Expression(BinOp(BinOp(BinOp(Name("cvss_score"), "Mult", Constant(FFloat(2, 5))), "Add", BinOp(BinOp(Name("epss_score"), "Mult", Constant(FInt(100))), "Mult", Constant(FFloat(3, 10)))), "Add", IfExp(Name("kev"), Constant(FInt(30)), Constant(FInt(0))))))],
      [text |-> "max(cvss_score, 5) / epss_score",
       tree |-> Some(Expression(BinOp(Call(Name("max"), <<Name("cvss_score"), Constant(FInt(5))>>, 0), "Div", Name("epss_score"))))],
      [text |-> "cvss_score >= 7 and kev",
       tree |-> Some(Expression(BoolOp("And", <<Compare(Name("cvss_score"), <<"GtE">>, <<Constant(FInt(7))>>), Name("kev")>>)))],
      [text |-> "not kev",
       tree |-> Some(Expression(UnaryOp("Not", Name("kev"))))],
      [text |-> "-cvss_score // 2 % 3",
       tree |-> Some(Expression(BinOp(BinOp(UnaryOp("USub", Name("cvss_score")), "FloorDiv", Constant(FInt(2))), "Mod", Constant(FInt(3)))))],
      [text |-> "abs(cvss_score - 10) < 1",
       tree |-> Some(Expression(Compare(Call(Name("abs"), <<BinOp(Name("cvss_score"), "Sub", Constant(FInt(10)))>>, 0), <<"Lt">>, <<Constant(FInt(1))>>)))],
      [text |-> "round(cvss_score) + min(epss_score, 1, 2)",
       tree |-> Some(Expression(BinOp(Call(Name("round"), <<Name("cvss_score")>>, 0), "Add", Call(Name("min"), <<Name("epss_score"), Constant(FInt(1)), Constant(FInt(2))>>, 0))))],
      [text |-> "1 < cvss_score <= 10 != kev",
       tree |-> Some(Expression(Compare(Constant(FInt(1)), <<"Lt", "LtE", "NotEq">>, <<Name("cvss_score"), Constant(FInt(10)), Name("kev")>>)))],
      [text |-> "10 ** 400",
       tree |-> Some(Expression(BinOp(Constant(FInt(10)), "Pow", Constant(FInt(400)))))],
      [text |-> "round(cvss_score) ** 400",
       tree |-> Some(Expression(BinOp(Call(Name("round"), <<Name("cvss_score")>>, 0), "Pow", Constant(FInt(400)))))],
      [text |-> "cvss_score ** 400",
       tree |-> Some(Expression(BinOp(Name("cvss_score"), "Pow", Constant(FInt(400)))))],
      [text |-> "(-8) ** 0.5",
       tree |-> Some(Expression(BinOp(UnaryOp("USub", Constant(FInt(8))), "Pow", Constant(FFloat(1, 2)))))],
      [text |-> "min",
       tree |-> Some(Expression(Name("min")))],
      [text |-> "missing + 1",
       tree |-> Some(Expression(BinOp(Name("missing"), "Add", Constant(FInt(1)))))],
      [text |-> "max(cvss_score)",
       tree |-> Some(Expression(Call(Name("max"), <<Name("cvss_score")>>, 0)))],
      [text |-> "cvss_score +",
       tree |-> Nothing],
      [text |-> "",
       tree |-> Nothing],
      [text |-> "   ",
       tree |-> Nothing],
      [text |-> DeepFormula,
       tree |-> Nothing],
      [text |-> "cvss_score.real",
       tree |-> Some(Expression(OtherNode("Attribute", "real", <<Name("cvss_score")>>)))],
      [text |-> "cvss_score[0]",
       tree |-> Some(Expression(OtherNode("Subscript", "", <<Name("cvss_score"), Constant(FInt(0))>>)))],
      [text |-> "len(cvss_score)",
       tree |-> Some(Expression(Call(Name("len"), <<Name("cvss_score")>>, 0)))],
      [text |-> "round(cvss_score, ndigits=1)",
       tree |-> Some(Expression(Call(Name("round"), <<Name("cvss_score")>>, 1)))],
      [text |-> "'a'",
       tree |-> Some(Expression(Constant(FOther("str"))))],
      [text |-> "(lambda: 1)()",
       tree |-> Some(Expression(Call(OtherNode("Lambda", "", <<Constant(FInt(1))>>), <<>>, 0)))],
      [text |-> "~kev",
       tree |-> Some(Expression(UnaryOp("Invert", Name("kev"))))],
      [text |-> "kev in cvss_score",
       tree |-> Some(Expression(Compare(Name("kev"), <<"In">>, <<Name("cvss_score")>>)))],
      [text |-> "[cvss_score, 1]",
       tree |-> Some(Expression(OtherNode("List", "", <<Name("cvss_score"), Constant(FInt(1))>>)))],
      [text |-> "cvss_score & 1",
       tree |-> Some(Expression(BinOp(Name("cvss_score"), "BitAnd", Constant(FInt(1)))))],
      [text |-> "None",
       tree |-> Some(Expression(Constant(FOther("none"))))],
      [text |-> "max(*cvss_score)",
       tree |-> Some(Expression(Call(Name("max"), <<OtherNode("Starred", "", <<Name("cvss_score")>>)>>, 0)))]
    >>

\* ast.parse(_preprocess_formula(formula), mode="eval")
AstParse(formula) ==
    LET Entry(k) == Formulas[k]
    IN  Entry(CHOOSE k \in 1..Len(Formulas) : Formulas[k].text = formula).tree

\* the exception ast.parse raises on a formula it returns no tree for
AstParseError(formula) ==
    IF formula = DeepFormula THEN "RecursionError" ELSE "SyntaxError"

FormulaRaise(kind, msg) == [exc |-> Some(kind), msg |-> msg]

\* the checks both validate_formula and evaluate_formula start with:
\* [exc, msg, tree]
CheckFormula(formula) ==
    LET Checked(tree, verdict) ==
            IF verdict # Nothing
            THEN FormulaRaise("FormulaError", verdict[1]) @@ [tree |-> Nothing]
            ELSE [exc |-> Nothing, msg |-> "", tree |-> Some(tree)]
        Parsed(tree) ==
            IF tree = Nothing /\ AstParseError(formula) = "SyntaxError"
            THEN FormulaRaise("FormulaError", "Erreur de syntaxe dans la formule")
                     @@ [tree |-> Nothing]
            ELSE IF tree = Nothing
            THEN FormulaRaise(AstParseError(formula), "maximum recursion depth exceeded")
                     @@ [tree |-> Nothing]
            ELSE Checked(tree[1], ValidateNode(tree[1]))
    IN  IF formula = "" \/ Strip(formula) = ""
        THEN FormulaRaise("FormulaError", "La formule ne peut pas etre vide")
                 @@ [tree |-> Nothing]
        ELSE Parsed(AstParse(formula))

\* ast.walk(tree): the nodes breadth first
RECURSIVE AstWalk(_)
AstWalk(todo) ==
    IF todo = <<>> THEN <<>>
    ELSE <<Head(todo)>> \o AstWalk(Tail(todo) \o Head(todo).kids)

\* extract_variables on a formula that parses
RECURSIVE CollectNames(_, _)
CollectNames(nodes, variables) ==
    IF nodes = <<>> THEN variables
    ELSE LET node == Head(nodes)
             seen == {variables[k] : k \in 1..Len(variables)}
         IN  IF node.kind = "Name" /\ node.id \notin ALLOWED_FUNCTIONS /\ node.id \notin seen
             THEN CollectNames(Tail(nodes), Append(variables, node.id))
             ELSE CollectNames(Tail(nodes), variables)

ExtractVariables(tree) == CollectNames(AstWalk(<<tree>>), <<>>)

\* the end of validate_formula: [exc, msg, variables]
CheckVariables(tree, available_variables) ==
    LET variables == ExtractVariables(tree)
        Known(available) == \A k \in 1..Len(variables) :
                                \E j \in 1..Len(available) : available[j] = variables[k]
    IN  IF available_variables # Nothing /\ ~Known(available_variables[1])
        THEN FormulaRaise("FormulaError", "Variables inconnues") @@ [variables |-> <<>>]
        ELSE [exc |-> Nothing, msg |-> "", variables |-> variables]

\* safe_vars after the loop over variables.items(): [exc, msg, env].
\* variables is the dict as the sequence of its items
RECURSIVE SafeVars(_, _)
SafeVars(variables, env) ==
    LET name == Head(variables)[1]
        value == Head(variables)[2]
        Bind(number) == SafeVars(Tail(variables), (name :> number) @@ env)
        Parsed(parsed) ==
            IF parsed.ok THEN Bind(Num("float", parsed.n, 10))
            ELSE FormulaRaise("FormulaError", "ne peut pas etre convertie en nombre")
                     @@ [env |-> <<>>]
    IN  IF variables = <<>> THEN [exc |-> Nothing, msg |-> "", env |-> env]
        ELSE CASE value.t = "none" ->
                    FormulaRaise("FormulaError", "La variable est None") @@ [env |-> <<>>]
               [] value.t = "bool" -> Bind(FFloat(IF value.n # 0 THEN 1 ELSE 0, 1))
               [] value.t \in {"int", "float"} -> Bind(Num("float", value.n, 10))
               [] value.t = "str" -> Parsed(ParseFloat(value.s))
               [] OTHER ->
                    FormulaRaise("FormulaError", "type non supporte") @@ [env |-> <<>>]

\* eval(compiled, safe_globals, safe_vars) inside its try: [exc, msg, v]
EvalFormula(tree, env) ==
    LET Caught(r) ==
            IF r.exc = Nothing THEN [exc |-> Nothing, msg |-> "", v |-> r.v]
            ELSE IF r.exc = Some("ZeroDivisionError")
            THEN FormulaRaise("FormulaError", "Division par zero dans la formule")
                     @@ [v |-> r.v]
            ELSE FormulaRaise("FormulaError", "Erreur d'evaluation") @@ [v |-> r.v]
    IN  Caught(EvalNode(tree, env))

\* the conversion of the result that ends evaluate_formula: [exc, msg, result]
FormulaResult(v) ==
    CASE v.k = "bool" -> [exc |-> Nothing, msg |-> "", result |-> Num("float", v.num, 1)]
      [] v.k \in {"int", "float"} ->
            [exc |-> Nothing, msg |-> "", result |-> Num("float", v.num, v.den)]
      [] v.k = "big" ->
            FormulaRaise("OverflowError", "int too large to convert to float")
                @@ [result |-> FOther("none")]
      [] OTHER ->
            FormulaRaise("FormulaError", "Le resultat de la formule n'est pas un nombre")
                @@ [result |-> FOther("none")]

\* evaluate_formula(formula, variables): [exc, msg, result]
EvaluateFormula(formula, variables) ==
    LET Done(r) == [exc |-> r.exc, msg |-> r.msg,
                    result |-> IF "result" \in DOMAIN r THEN r.result ELSE FOther("none")]
        OnValue(e) == IF e.exc # Nothing THEN Done(e) ELSE Done(FormulaResult(e.v))
        OnVars(tree, s) ==
            IF s.exc # Nothing THEN Done(s) ELSE OnValue(EvalFormula(tree, s.env))
        OnTree(c) ==
            IF c.exc # Nothing THEN Done(c) ELSE OnVars(c.tree[1], SafeVars(variables, <<>>))
    IN  OnTree(CheckFormula(formula))

----------------------------------------------------------------------------
(* Node evaluators.  evaluate returns [exc, msg, value, label, pool]: exc is *)
(* <<>> or the exception raised, msg its message, label the matched        *)
(* condition label (<<>> is None).                                         *)

NodeReturn(value, label, p) ==
    [exc |-> Nothing, msg |-> "", value |-> value, label |-> label, pool |-> p]

NodeRaise(kind, msg, p) ==
    [exc |-> Some(kind), msg |-> msg, value |-> PyNone, label |-> Nothing, pool |-> p]

\* seq[idx] with Python's indexing: [ok, item]
PyIndex(seq, idx) ==
    IF 0 <= idx /\ idx < Len(seq) THEN [ok |-> TRUE, item |-> seq[idx + 1]]
    ELSE IF idx < 0 /\ 0 - idx <= Len(seq) THEN [ok |-> TRUE, item |-> seq[Len(seq) + idx + 1]]
    ELSE [ok |-> FALSE, item |-> seq]

\* InputNode.evaluate
InputNodeEvaluate(node, context, p) ==
    LET Default(value, default_idx, pl) ==
            IF default_idx # Nothing /\ default_idx[1] < Len(node.conditions)
            THEN IF PyIndex(node.conditions, default_idx[1]).ok
                 THEN NodeReturn(value,
                                 Some(PyIndex(node.conditions, default_idx[1]).item.label), pl)
                 ELSE NodeRaise("IndexError", "", pl)
            ELSE NodeRaise("NodeEvaluationError",
                           "aucune condition ne correspond a la valeur", pl)
        Matched(value, m) ==
            IF m.exc # Nothing THEN NodeRaise(m.exc[1], "", m.pool)
            ELSE IF m.match = Nothing THEN Default(value, node.config.default_branch, m.pool)
            ELSE NodeReturn(value, Some(m.match[1].label), m.pool)
        OnValue(value) == Matched(value, MatchCondition(node, value, context, p))
        OnField(field) ==
            IF field = Nothing \/ field = Some("")
            THEN NodeRaise("NodeEvaluationError", "champ 'field' non configure", p)
            ELSE OnValue(GetFieldValue(context, field[1]))
    IN  OnField(node.config.field)

\* the default branch of LookupNode.evaluate
LookupDefault(node, msg, p) ==
    LET Branch(default_idx) ==
            IF node.conditions = <<>> THEN NodeReturn(PyNone, Nothing, p)
            ELSE IF PyIndex(node.conditions, default_idx).ok
            THEN NodeReturn(PyNone, Some(PyIndex(node.conditions, default_idx).item.label), p)
            ELSE NodeRaise("IndexError", "", p)
    IN  IF node.config.default_branch # Nothing
        THEN Branch(node.config.default_branch[1])
        ELSE NodeRaise("NodeEvaluationError", msg, p)

\* LookupNode.evaluate
LookupNodeEvaluate(node, context, p) ==
    LET Configured(c) == c # Nothing /\ c # Some("")
        Or(declared, extra) == IF Truthy(declared) THEN declared ELSE extra
        Table(lookup_table) ==
            IF lookup_table \in DOMAIN context.lookups THEN context.lookups[lookup_table]
            ELSE <<>>
        Matched(value, m) ==
            IF m.exc # Nothing THEN NodeRaise(m.exc[1], "", m.pool)
            ELSE IF m.match = Nothing
            THEN NodeRaise("NodeEvaluationError", "aucune condition ne correspond", m.pool)
            ELSE NodeReturn(value, Some(m.match[1].label), m.pool)
        OnValue(value) == Matched(value, MatchCondition(node, value, context, p))
        OnRow(lookup_result, lookup_field) ==
            OnValue(IF lookup_field \in DOMAIN lookup_result THEN lookup_result[lookup_field]
                    ELSE PyNone)
        OnKey(key_value, lookup_cache, lookup_field) ==
            IF key_value.t = "none" THEN LookupDefault(node, "cle de lookup non trouvee", p)
            ELSE IF ToStr(key_value) \notin DOMAIN lookup_cache
            THEN LookupDefault(node, "asset non trouve", p)
            ELSE OnRow(lookup_cache[ToStr(key_value)], lookup_field)
        OnConfig(lookup_table, lookup_key, lookup_field) ==
            IF ~(Configured(lookup_table) /\ Configured(lookup_key) /\ Configured(lookup_field))
            THEN NodeRaise("NodeEvaluationError", "configuration lookup incomplete", p)
            ELSE OnKey(Or(VulnGet(context.vulnerability, lookup_key[1]),
                          ExtraGet(context.vulnerability, lookup_key[1])),
                       Table(lookup_table[1]), lookup_field[1])
    IN  OnConfig(node.config.lookup_table, node.config.lookup_key, node.config.lookup_field)

\* EquationNode._apply_value_maps; variables is the dict as the sequence of
\* its items, value_maps the sequence of [var_name, entries, default_value]
RECURSIVE ApplyValueMaps(_, _)
ApplyValueMaps(variables, value_maps) ==
    LET vmap == Head(value_maps)
        Matching(raw) == {k \in 1..Len(vmap.entries) : PyEq(vmap.entries[k].text, raw)}
        First(found) == CHOOSE k \in found : \A j \in found : k <= j
        Mapped(raw) ==
            IF raw.t = "none" THEN vmap.default_value
            ELSE IF raw.t = "str"
            THEN IF Matching(raw) # {} THEN vmap.entries[First(Matching(raw))].value
                 ELSE vmap.default_value
            ELSE raw
        Applied == [k \in 1..Len(variables) |->
                       IF variables[k][1] = vmap.var_name
                       THEN <<variables[k][1], Mapped(variables[k][2])>>
                       ELSE variables[k]]
    IN  IF value_maps = <<>> THEN variables
        ELSE ApplyValueMaps(Applied, Tail(value_maps))

\* the float score as a value of the record model (tenths)
ScoreValue(result) ==
    CASE 10 % result.den = 0 -> PyFloat10(result.num * (10 \div result.den))

\* EquationNode.evaluate
EquationNodeEvaluate(node, context, p) ==
    LET Default(score, default_idx, pl) ==
            IF default_idx # Nothing /\ default_idx[1] < Len(node.conditions)
            THEN IF PyIndex(node.conditions, default_idx[1]).ok
                 THEN NodeReturn(score,
                                 Some(PyIndex(node.conditions, default_idx[1]).item.label), pl)
                 ELSE NodeRaise("IndexError", "", pl)
            ELSE NodeRaise("NodeEvaluationError",
                           "aucune condition ne correspond au score", pl)
        Matched(score, m) ==
            IF m.exc # Nothing THEN NodeRaise(m.exc[1], "", m.pool)
            ELSE IF m.match = Nothing THEN Default(score, node.config.default_branch, m.pool)
            ELSE NodeReturn(score, Some(m.match[1].label), m.pool)
        OnScore(score) == Matched(score, MatchCondition(node, score, context, p))
        OnResult(r) ==
            IF r.exc = Some("FormulaError") THEN NodeRaise("NodeEvaluationError", r.msg, p)
            ELSE IF r.exc # Nothing THEN NodeRaise(r.exc[1], r.msg, p)
            ELSE OnScore(ScoreValue(r.result))
        Collect(variable_names) ==
            [k \in 1..Len(variable_names) |->
                <<variable_names[k], GetFieldValue(context, variable_names[k])>>]
        OnFormula(formula) ==
            IF formula = Nothing \/ formula = Some("")
            THEN NodeRaise("NodeEvaluationError", "formule non configuree", p)
            ELSE OnResult(EvaluateFormula(formula[1],
                                          ApplyValueMaps(Collect(node.config.variables),
                                                         node.config.value_maps)))
    IN  OnFormula(node.config.formula)

\* OutputNode.evaluate
OutputNodeEvaluate(node, context, p) ==
    NodeReturn(IF node.config.decision # Nothing THEN node.config.decision[1]
               ELSE PyStrV("Unknown"),
               Nothing, p)

\* node.evaluate(context), dispatched on the class create_node chose
NodeEvaluate(node, context, p) ==
    CASE node.type = "input" -> InputNodeEvaluate(node, context, p)
      [] node.type = "lookup" -> LookupNodeEvaluate(node, context, p)
      [] node.type = "equation" -> EquationNodeEvaluate(node, context, p)
      [] node.type = "output" -> OutputNodeEvaluate(node, context, p)

----------------------------------------------------------------------------
(* InferenceEngine *)

max_iterations == 100

\* self.nodes after the loop over tree_structure.nodes: a dict keeps the
\* place of a key's first insertion and the value of its last
RECURSIVE BuildNodes(_, _)
BuildNodes(schemas, nodes) ==
    IF schemas = <<>> THEN nodes
    ELSE LET schema == Head(schemas)
             seen == \E k \in 1..Len(nodes) : nodes[k].id = schema.id
         IN  BuildNodes(Tail(schemas),
                 IF seen
                 THEN [k \in 1..Len(nodes) |->
                          IF nodes[k].id = schema.id THEN schema ELSE nodes[k]]
                 ELSE Append(nodes, schema))

\* index of the first TRUE of flags, 0 when there is none
FirstTrue(flags) ==
    IF \E k \in 1..Len(flags) : flags[k]
    THEN CHOOSE k \in 1..Len(flags) : flags[k] /\ \A j \in 1..(k - 1) : ~flags[j]
    ELSE 0

\* InferenceEngine.__init__ and _build_tree
BuildTree(tree_structure) ==
    LET Targets(all_edges) == {all_edges[k].target : k \in 1..Len(all_edges)}
        Sources(all_edges) == {all_edges[k].source : k \in 1..Len(all_edges)}
        From(all_edges, src) ==
            LET FromSrc(e) == e.source = src IN SelectSeq(all_edges, FromSrc)
        Root(nodes, free, first_input) ==
            IF free # 0 THEN Some(nodes[free].id)
            ELSE IF nodes # <<>> /\ first_input # 0 THEN Some(nodes[first_input].id)
            ELSE Nothing
        Build(nodes, all_edges, target_nodes) ==
            [tree_structure |-> tree_structure,
             nodes |-> nodes,
             edges |-> [src \in Sources(all_edges) |-> From(all_edges, src)],
             root_node_id |->
                Root(nodes,
                     FirstTrue([k \in 1..Len(nodes) |-> nodes[k].id \notin target_nodes]),
                     FirstTrue([k \in 1..Len(nodes) |-> nodes[k].type = "input"]))]
    IN  Build(BuildNodes(tree_structure.nodes, <<>>), tree_structure.edges,
              Targets(tree_structure.edges))

\* InferenceEngine.get_required_fields
GetRequiredFields(eng) ==
    {eng.nodes[k].config.field[1] :
         k \in {j \in 1..Len(eng.nodes) : eng.nodes[j].config.field # Nothing}}
    \cup {eng.nodes[k].config.lookup_key[1] :
              k \in {j \in 1..Len(eng.nodes) : eng.nodes[j].config.lookup_key # Nothing}}

\* InferenceEngine.get_lookup_tables
GetLookupTables(eng) ==
    {eng.nodes[k].config.lookup_table[1] :
         k \in {j \in 1..Len(eng.nodes) : eng.nodes[j].config.lookup_table # Nothing}}

\* self.nodes.get(node_id): <<>> or <<node>>
NodesGet(eng, node_id) ==
    LET Found(k) == IF k = 0 THEN Nothing ELSE Some(eng.nodes[k])
    IN  Found(FirstTrue([k \in 1..Len(eng.nodes) |-> eng.nodes[k].id = node_id]))

\* InferenceEngine._parse_input_index: <<>> or <<n>>
ParseInputIndex(target_handle) ==
    LET Index(parsed) == IF parsed.ok THEN Some(parsed.n) ELSE Nothing
    IN  IF target_handle = Nothing \/ target_handle = Some("") THEN Nothing
        ELSE IF StartsWith(target_handle[1], "input-")
        THEN Index(ParseInt(Split(target_handle[1], "-")[2]))
        ELSE Nothing

\* _find_next_node with the label tried before the handles
FindNextNodeLabelFirst(eng, source_id, condition_label, condition_index, input_index, input_count) ==
    LET None == [target |-> Nothing, target_handle |-> Nothing]
        Take(e) == [target |-> Some(e.target), target_handle |-> e.target_handle]
        HandleId ==
            IF input_count > 1 /\ input_index # Nothing
            THEN "handle-" \o ToString(input_index[1]) \o "-" \o ToString(condition_index[1])
            ELSE "handle-" \o ToString(condition_index[1])
        Pick(edges, by_handle, by_fallback, by_label, unlabelled) ==
            IF edges = <<>> THEN None
            ELSE IF Len(edges) = 1 THEN Take(edges[1])
            ELSE IF by_label # 0 THEN Take(edges[by_label])
            ELSE IF by_handle # 0 THEN Take(edges[by_handle])
            ELSE IF by_fallback # 0 THEN Take(edges[by_fallback])
            ELSE IF unlabelled # 0 THEN Take(edges[unlabelled])
            ELSE None
        Among(edges) ==
            Pick(edges,
                 IF condition_index # Nothing
                 THEN FirstTrue([k \in 1..Len(edges) |->
                                    edges[k].source_handle = Some(HandleId)])
                 ELSE 0,
                 IF condition_index # Nothing /\ input_count > 1
                 THEN FirstTrue([k \in 1..Len(edges) |->
                                    edges[k].source_handle
                                        = Some("handle-" \o ToString(condition_index[1]))])
                 ELSE 0,
                 FirstTrue([k \in 1..Len(edges) |-> edges[k].label = condition_label]),
                 FirstTrue([k \in 1..Len(edges) |-> edges[k].label = Nothing]))
    IN  Among(IF source_id \in DOMAIN eng.edges THEN eng.edges[source_id] ELSE <<>>)

\* InferenceEngine._find_next_node: [target, target_handle], target <<>> when none
FindNextNode(eng, source_id, condition_label, condition_index, input_index, input_count) ==
    LET None == [target |-> Nothing, target_handle |-> Nothing]
        Take(e) == [target |-> Some(e.target), target_handle |-> e.target_handle]
        HandleId ==
            IF input_count > 1 /\ input_index # Nothing
            THEN "handle-" \o ToString(input_index[1]) \o "-" \o ToString(condition_index[1])
            ELSE "handle-" \o ToString(condition_index[1])
        Pick(edges, by_handle, by_fallback, by_label, unlabelled) ==
            IF edges = <<>> THEN None
            ELSE IF Len(edges) = 1 THEN Take(edges[1])
            ELSE IF by_handle # 0 THEN Take(edges[by_handle])
            ELSE IF by_fallback # 0 THEN Take(edges[by_fallback])
            ELSE IF by_label # 0 THEN Take(edges[by_label])
            ELSE IF unlabelled # 0 THEN Take(edges[unlabelled])
            ELSE None
        Among(edges) ==
            Pick(edges,
                 IF condition_index # Nothing
                 THEN FirstTrue([k \in 1..Len(edges) |->
                                    edges[k].source_handle = Some(HandleId)])
                 ELSE 0,
                 IF condition_index # Nothing /\ input_count > 1
                 THEN FirstTrue([k \in 1..Len(edges) |->
                                    edges[k].source_handle
                                        = Some("handle-" \o ToString(condition_index[1]))])
                 ELSE 0,
                 FirstTrue([k \in 1..Len(edges) |-> edges[k].label = condition_label]),
                 FirstTrue([k \in 1..Len(edges) |-> edges[k].label = Nothing]))
    IN  Among(IF source_id \in DOMAIN eng.edges THEN eng.edges[source_id] ELSE <<>>)

\* EvaluationResult(...)
EvaluationResult(vuln_id, decision, decision_color, path, error) ==
    [vuln_id |-> vuln_id, decision |-> decision, decision_color |-> decision_color,
     path |-> path, error |-> error]

NoResult == EvaluationResult(PyNone, "", Nothing, <<>>, Nothing)

\* the locals of a thread that is not inside evaluate
IdleCall ==
    [status |-> "idle", vulnerability |-> <<>>, include_path |-> FALSE,
     current_node_id |-> "", current_input_index |-> Nothing, iteration |-> 0,
     path |-> <<>>, result |-> NoResult, exc |-> Nothing]

\* vuln_id = vulnerability.id or vulnerability.cve_id
VulnId(vulnerability) ==
    IF Truthy(vulnerability.fields.id) THEN vulnerability.fields.id
    ELSE vulnerability.fields.cve_id

ReturnedPathLastNode(call) == IF call.include_path THEN call.path ELSE <<call.current_node_id>>

\* path if include_path else []
ReturnedPath(call) == IF call.include_path THEN call.path ELSE <<>>

\* return EvaluationResult(vuln_id=..., decision=..., decision_color=..., path=..., error=...)
CallReturn(call, decision, decision_color, error) ==
    [call EXCEPT !.status = "returned",
                 !.result = EvaluationResult(VulnId(call.vulnerability), decision,
                                decision_color, ReturnedPath(call), error)]

ErrorResultWithoutError(call, msg) == CallReturn(call, "Error", Nothing, Nothing)

\* return EvaluationResult(vuln_id=..., decision="Error", path=..., error=msg)
ErrorResult(call, msg) == CallReturn(call, "Error", Nothing, Some(msg))

WhileTestWithoutCap(iteration) == TRUE

\* while iteration < max_iterations
WhileTest(iteration) == iteration < max_iterations

\* InferenceEngine.evaluate up to the while loop
EvaluateBegin(eng, vulnerability, with_path) ==
    LET call == [IdleCall EXCEPT !.vulnerability = vulnerability,
                                 !.include_path = with_path]
    IN  IF eng.root_node_id = Nothing \/ eng.root_node_id = Some("")
        THEN [call EXCEPT !.status = "returned",
                          !.result = EvaluationResult(VulnId(vulnerability), "Error",
                                         Nothing, <<>>, Some("Arbre vide ou invalide"))]
        ELSE [call EXCEPT !.status = "running",
                          !.current_node_id = eng.root_node_id[1]]

\* index of the first condition whose label is condition_label: <<>> or <<idx>>
ConditionIndex(node, condition_label) ==
    LET Index(k) == IF k # 0 THEN Some(k - 1) ELSE Nothing
    IN  IF condition_label # Nothing /\ condition_label # Some("")
        THEN Index(FirstTrue([k \in 1..Len(node.conditions) |->
                                 Some(node.conditions[k].label) = condition_label]))
        ELSE Nothing

\* the DecisionPath appended for node
PathStep(node, value, condition_label) ==
    [node_id |-> node.id, node_label |-> node.label, node_type |-> node.type,
     field_evaluated |->
         IF node.config.field # Nothing /\ node.config.field # Some("")
         THEN node.config.field ELSE node.config.lookup_field,
     value_found |-> value, condition_matched |-> condition_label]

PathAppendInFront(path, step) == <<step>> \o path

\* path.append(step)
PathAppend(path, step) == Append(path, step)

\* if include_path: path.append(DecisionPath(...))
RecordStep(call, node, value, condition_label) ==
    IF call.include_path
    THEN [call EXCEPT !.path = PathAppend(@, PathStep(node, value, condition_label))]
    ELSE call

\* the while test of InferenceEngine.evaluate and one pass of its body:
\* [call, pool]
EvaluateStep(eng, lk, call, p) ==
    LET InputCount(node) ==
            IF node.config.input_count # Nothing THEN node.config.input_count[1] ELSE 1
        Follow(stepped, next, pl) ==
            IF next.target = Nothing
            THEN [call |-> ErrorResult(stepped, "Aucune branche pour la condition"),
                  pool |-> pl]
            ELSE [call |-> [stepped EXCEPT !.current_node_id = next.target[1],
                                           !.current_input_index =
                                               ParseInputIndex(next.target_handle)],
                  pool |-> pl]
        Evaluated(counted, node, r) ==
            IF r.exc = Some("NodeEvaluationError")
            THEN [call |-> ErrorResult(counted, r.msg), pool |-> r.pool]
            ELSE IF r.exc # Nothing
            THEN [call |-> [counted EXCEPT !.status = "raised", !.exc = r.exc],
                  pool |-> r.pool]
            ELSE IF node.type = "output"
            THEN [call |-> CallReturn(RecordStep(counted, node, r.value, r.label),
                                      ToStr(r.value), node.config.color, Nothing),
                  pool |-> r.pool]
            ELSE Follow(RecordStep(counted, node, r.value, r.label),
                        FindNextNode(eng, call.current_node_id, r.label,
                                     ConditionIndex(node, r.label),
                                     call.current_input_index, InputCount(node)),
                        r.pool)
        Got(counted, got) ==
            IF got = Nothing
            THEN [call |-> ErrorResult(counted, "Noeud non trouve"), pool |-> p]
            ELSE Evaluated(counted, got[1],
                           NodeEvaluate(got[1], [vulnerability |-> call.vulnerability,
                                                 lookups |-> lk], p))
    IN  IF ~WhileTest(call.iteration)
        THEN [call |-> ErrorResult(call, "Limite d'iterations atteinte (boucle infinie detectee?)"),
              pool |-> p]
        ELSE Got([call EXCEPT !.iteration = @ + 1], NodesGet(eng, call.current_node_id))

\* one more pass of the while loop for a call that is still in it
EvaluatePass(eng, lk, s) ==
    IF s.call.status = "running" THEN EvaluateStep(eng, lk, s.call, s.pool) ELSE s

\* the while loop of InferenceEngine.evaluate from s = [call, pool] to the
\* return or the exception; the passes are taken four at a time
RECURSIVE EvaluateFrom(_, _, _)
EvaluateFrom(eng, lk, s) ==
    IF s.call.status # "running" THEN s
    ELSE EvaluateFrom(eng, lk,
             EvaluatePass(eng, lk,
                 EvaluatePass(eng, lk, EvaluatePass(eng, lk, EvaluatePass(eng, lk, s)))))

\* InferenceEngine.evaluate(vulnerability, lookups, include_path) with the
\* executor in state p: [call, pool]
Evaluate(eng, vulnerability, lk, with_path, p) ==
    EvaluateFrom(eng, lk, [call |-> EvaluateBegin(eng, vulnerability, with_path), pool |-> p])

----------------------------------------------------------------------------
(* Structures, lookups and records the engine is run on *)

MaxBatch == 3

MaxChunk == 2

Threads == {1, 2}

\* the thread that runs process_batch
BatchThread == 1

NoConfig ==
    [field |-> Nothing, lookup_table |-> Nothing, lookup_key |-> Nothing,
     lookup_field |-> Nothing, default_branch |-> Nothing, input_count |-> Nothing,
     decision |-> Nothing, color |-> Nothing, formula |-> Nothing, variables |-> <<>>,
     value_maps |-> <<>>]

\* NodeCondition(operator=op, value=value, label=label)
Cond(op, value, label) ==
    [label |-> label, operator |-> Some(op), value |-> value, logic |-> Nothing,
     criteria |-> <<>>]

\* NodeCondition(label=label, logic=logic, criteria=criteria)
Compound(label, logic, criteria) ==
    [label |-> label, operator |-> Nothing, value |-> PyNone, logic |-> Some(logic),
     criteria |-> criteria]

\* SimpleConditionCriteria(field=field, operator=op, value=value)
Crit(field, op, value) == [field |-> field, operator |-> op, value |-> value]

\* NodeSchema(...)
Node(id, type, label, config, conditions) ==
    [id |-> id, type |-> type, label |-> label, config |-> config,
     conditions |-> conditions]

\* NodeSchema(type=NodeType.OUTPUT, config={"decision": ..., "color": ...})
Output(id, decision, color) ==
    Node(id, "output", decision,
         [NoConfig EXCEPT !.decision = Some(PyStrV(decision)), !.color = color], <<>>)

\* EdgeSchema(...)
Edge(id, source, target, source_handle, target_handle, label) ==
    [id |-> id, source |-> source, target |-> target, source_handle |-> source_handle,
     target_handle |-> target_handle, label |-> label]

\* the declared scalar fields of VulnerabilityInput
DeclaredFields ==
    {"id", "cve_id", "cvss_score", "cvss_vector", "epss_score", "epss_percentile",
     "kev", "asset_id", "hostname", "ip_address"}

\* VulnerabilityInput(**given, extra=extra).model_dump()
VulnerabilityInput(given, extra) ==
    [fields |-> [f \in DeclaredFields |-> IF f \in DOMAIN given THEN given[f] ELSE PyNone],
     extra |-> extra]

Outputs ==
    <<Output("output-act", "Act", Some("#ff0000")),
      Output("output-attend", "Attend", Some("#ff9900")),
      Output("output-track", "Track", Some("#00ff00"))>>

\* tests/conftest.py simple_tree_structure
SimpleTree ==
    [nodes |->
        <<Node("input-cvss", "input", "CVSS Score",
               [NoConfig EXCEPT !.field = Some("cvss_score")],
               <<Cond("gte", PyFloat10(90), "Critical"),
                 Cond("gte", PyFloat10(70), "High"),
                 Cond("lt", PyFloat10(70), "Low")>>)>> \o Outputs,
     edges |->
        <<Edge("e1", "input-cvss", "output-act", Nothing, Nothing, Some("Critical")),
          Edge("e2", "input-cvss", "output-attend", Nothing, Nothing, Some("High")),
          Edge("e3", "input-cvss", "output-track", Nothing, Nothing, Some("Low"))>>]

\* tests/conftest.py tree_with_lookup
LookupTree ==
    [nodes |->
        <<Node("input-cvss", "input", "CVSS Score",
               [NoConfig EXCEPT !.field = Some("cvss_score")],
               <<Cond("gte", PyFloat10(70), "High"), Cond("lt", PyFloat10(70), "Low")>>),
          Node("lookup-asset", "lookup", "Asset Criticality",
               [NoConfig EXCEPT !.lookup_table = Some("assets"),
                                !.lookup_key = Some("asset_id"),
                                !.lookup_field = Some("criticality"),
                                !.default_branch = Some(0)],
               <<Cond("eq", PyStrV("Critical"), "Critical"),
                 Cond("eq", PyStrV("High"), "High"),
                 Cond("in", PyList(<<PyStrV("Medium"), PyStrV("Low")>>), "Normal")>>)>>
        \o Outputs,
     edges |->
        <<Edge("e1", "input-cvss", "lookup-asset", Nothing, Nothing, Some("High")),
          Edge("e2", "input-cvss", "output-track", Nothing, Nothing, Some("Low")),
          Edge("e3", "lookup-asset", "output-act", Nothing, Nothing, Some("Critical")),
          Edge("e4", "lookup-asset", "output-attend", Nothing, Nothing, Some("High")),
          Edge("e5", "lookup-asset", "output-track", Nothing, Nothing, Some("Normal"))>>]

AssetLookups ==
    [assets |->
        [k \in {"srv-critical", "srv-medium", "srv-odd"} |->
            CASE k = "srv-critical" -> [criticality |-> PyStrV("Critical")]
              [] k = "srv-medium" -> [criticality |-> PyStrV("Medium")]
              [] OTHER -> [criticality |-> PyStrV("Unrated")]]]

\* tests/conftest.py compound_condition_tree
CompoundTree ==
    [nodes |->
        <<Node("input-compound", "input", "CVSS Compound",
               [NoConfig EXCEPT !.field = Some("cvss_av")],
               <<Compound("Network+Low", "AND",
                     <<Crit(Some("cvss_av"), "eq", PyStrV("Network")),
                       Crit(Some("cvss_ac"), "eq", PyStrV("Low"))>>),
                 Compound("Network OR Low", "OR",
                     <<Crit(Some("cvss_av"), "eq", PyStrV("Network")),
                       Crit(Some("cvss_ac"), "eq", PyStrV("Low"))>>),
                 Cond("is_not_null", PyNone, "Other")>>)>> \o Outputs,
     edges |->
        <<Edge("e1", "input-compound", "output-act", Some("handle-0"), Nothing,
               Some("Network+Low")),
          Edge("e2", "input-compound", "output-attend", Some("handle-1"), Nothing,
               Some("Network OR Low")),
          Edge("e3", "input-compound", "output-track", Some("handle-2"), Nothing,
               Some("Other"))>>]

\* tests/conftest.py multi_input_tree
MultiInputTree ==
    [nodes |->
        <<Node("input-kev", "input", "KEV", [NoConfig EXCEPT !.field = Some("kev")],
               <<Cond("eq", PyBool(TRUE), "Active"), Cond("eq", PyBool(FALSE), "None")>>),
          Node("input-impact", "input", "Technical Impact",
               [NoConfig EXCEPT !.field = Some("cvss_score"), !.input_count = Some(2)],
               <<Cond("gte", PyFloat10(90), "Total"), Cond("lt", PyFloat10(90), "Partial")>>),
          Output("output-act", "Act", Some("#ff0000")),
          Output("output-attend", "Attend", Some("#ff9900")),
          Output("output-track-star", "Track*", Some("#ffff00")),
          Output("output-track", "Track", Some("#00ff00"))>>,
     edges |->
        <<Edge("e1", "input-kev", "input-impact", Some("handle-0"), Some("input-0"),
               Some("Active")),
          Edge("e2", "input-kev", "input-impact", Some("handle-1"), Some("input-1"),
               Some("None")),
          Edge("e3", "input-impact", "output-act", Some("handle-0-0"), Nothing, Nothing),
          Edge("e4", "input-impact", "output-attend", Some("handle-0-1"), Nothing, Nothing),
          Edge("e5", "input-impact", "output-track-star", Some("handle-1-0"), Nothing,
               Nothing),
          Edge("e6", "input-impact", "output-track", Some("handle-1-1"), Nothing, Nothing)>>]

\* a cyclic structure: input-cvss and input-kev send a high score round for ever
CyclicTree ==
    [nodes |->
        <<Node("input-cvss", "input", "CVSS Score",
               [NoConfig EXCEPT !.field = Some("cvss_score")],
               <<Cond("gte", PyFloat10(70), "High"), Cond("lt", PyFloat10(70), "Low")>>),
          Node("input-kev", "input", "KEV", [NoConfig EXCEPT !.field = Some("kev")],
               <<Cond("is_null", PyNone, "Unknown"), Cond("is_not_null", PyNone, "Known")>>),
          Output("output-track", "Track", Some("#00ff00"))>>,
     edges |->
        <<Edge("e1", "input-cvss", "input-kev", Some("handle-0"), Nothing, Some("High")),
          Edge("e2", "input-cvss", "output-track", Some("handle-1"), Nothing, Some("Low")),
          Edge("e3", "input-kev", "input-cvss", Nothing, Nothing, Nothing)>>]

\* a structure with a dangling edge, an Input node without field, a node
\* without outgoing edge and a node whose edges fit no condition
BrokenTree ==
    [nodes |->
        <<Node("input-cvss", "input", "CVSS Score",
               [NoConfig EXCEPT !.field = Some("cvss_score"), !.default_branch = Some(3)],
               <<Cond("gte", PyFloat10(90), "Critical"),
                 Cond("gte", PyFloat10(70), "High"),
                 Cond("lt", PyFloat10(30), "Low"),
                 Cond("in", PyStrV("never"), "Fallback")>>),
          Node("input-nofield", "input", "No field", NoConfig,
               <<Cond("is_null", PyNone, "Unknown")>>),
          Node("input-kev", "input", "KEV", [NoConfig EXCEPT !.field = Some("kev")],
               <<Cond("is_null", PyNone, "Unknown"), Cond("eq", PyBool(TRUE), "Active")>>),
          Node("input-leaf", "input", "Leaf", [NoConfig EXCEPT !.field = Some("kev")],
               <<Cond("is_not_null", PyNone, "Known")>>)>> \o Outputs,
     edges |->
        <<Edge("e1", "input-cvss", "ghost", Some("handle-0"), Nothing, Some("Critical")),
          Edge("e2", "input-cvss", "input-nofield", Some("handle-1"), Nothing, Some("High")),
          Edge("e3", "input-cvss", "input-kev", Some("handle-2"), Nothing, Some("Low")),
          Edge("e4", "input-cvss", "output-track", Some("handle-3"), Nothing,
               Some("Fallback")),
          Edge("e5", "input-kev", "output-act", Some("handle-7"), Nothing, Some("Other")),
          Edge("e6", "input-kev", "input-leaf", Some("handle-1"), Nothing, Some("Active")),
          Edge("e7", "input-nofield", "output-attend", Nothing, Nothing, Nothing)>>]

\* an Input node on an unmapped column compared with an ordering operator,
\* followed by a Lookup node whose default_branch is no index of its conditions
CustomTree ==
    [nodes |->
        <<Node("input-custom", "input", "Custom", [NoConfig EXCEPT !.field = Some("custom")],
               <<Cond("is_null", PyNone, "Missing"),
                 Cond("gte", PyInt(5), "High"),
                 Cond("lt", PyInt(5), "Low")>>),
          Node("lookup-asset", "lookup", "Asset Criticality",
               [NoConfig EXCEPT !.lookup_table = Some("assets"),
                                !.lookup_key = Some("asset_id"),
                                !.lookup_field = Some("criticality"),
                                !.default_branch = Some(5)],
               <<Cond("eq", PyStrV("Critical"), "Critical"),
                 Cond("neq", PyStrV("Critical"), "Other")>>)>> \o Outputs,
     edges |->
        <<Edge("e1", "input-custom", "lookup-asset", Some("handle-1"), Nothing, Some("High")),
          Edge("e2", "input-custom", "output-track", Some("handle-2"), Nothing, Some("Low")),
          Edge("e3", "lookup-asset", "output-act", Some("handle-0"), Nothing,
               Some("Critical")),
          Edge("e4", "lookup-asset", "output-attend", Some("handle-1"), Nothing,
               Some("Other"))>>]

\* an Input node with REGEX conditions on hostname
RegexTree ==
    [nodes |->
        <<Node("input-host", "input", "Hostname", [NoConfig EXCEPT !.field = Some("hostname")],
               <<Cond("regex", PyStrV(Repeat("a", MAX_REGEX_PATTERN_LENGTH + 1)), "Oversized"),
                 Cond("regex", PyStrV("("), "Invalid"),
                 Cond("regex", PyStrV("(a+)+$"), "Nested"),
                 Cond("regex", PyStrV("^a"), "Prefix"),
                 Cond("contains", PyStrV("srv"), "Server")>>)>> \o Outputs,
     edges |->
        <<Edge("e1", "input-host", "output-act", Some("handle-2"), Nothing, Some("Nested")),
          Edge("e2", "input-host", "output-attend", Some("handle-3"), Nothing,
               Some("Prefix")),
          Edge("e3", "input-host", "output-track", Some("handle-4"), Nothing,
               Some("Server"))>>]

\* the multi-input structure with two conditions of input-impact that carry
\* the same label
SharedLabelTree ==
    [nodes |->
        <<Node("input-kev", "input", "KEV", [NoConfig EXCEPT !.field = Some("kev")],
               <<Cond("eq", PyBool(TRUE), "Active"), Cond("eq", PyBool(FALSE), "None")>>),
          Node("input-impact", "input", "Technical Impact",
               [NoConfig EXCEPT !.field = Some("cvss_score"), !.input_count = Some(2)],
               <<Cond("gte", PyFloat10(90), "Severe"),
                 Cond("gte", PyFloat10(70), "Severe"),
                 Cond("lt", PyFloat10(70), "Partial")>>),
          Output("output-act", "Act", Some("#ff0000")),
          Output("output-attend", "Attend", Some("#ff9900")),
          Output("output-track-star", "Track*", Some("#ffff00")),
          Output("output-track", "Track", Some("#00ff00"))>>,
     edges |->
        <<Edge("e1", "input-kev", "input-impact", Some("handle-0"), Some("input-0"),
               Some("Active")),
          Edge("e2", "input-kev", "input-impact", Some("handle-1"), Some("input-1"),
               Some("None")),
          Edge("e3", "input-impact", "output-act", Some("handle-0-0"), Nothing, Nothing),
          Edge("e4", "input-impact", "output-attend", Some("handle-0-1"), Nothing, Nothing),
          Edge("e5", "input-impact", "output-track", Some("handle-0-2"), Nothing, Nothing),
          Edge("e6", "input-impact", "output-track-star", Some("handle-1-0"), Nothing,
               Nothing),
          Edge("e7", "input-impact", "output-track", Some("handle-1-1"), Nothing, Nothing),
          Edge("e8", "input-impact", "output-track", Some("handle-1-2"), Nothing, Nothing)>>]

\* tests/test_multi_input.py test_input_index_out_of_bounds: input-b has
\* input_count 1 and is entered through target_handle "input-2"
SlotOutOfBoundsTree ==
    [nodes |->
        <<Node("input-a", "input", "A", [NoConfig EXCEPT !.field = Some("kev")],
               <<Cond("eq", PyBool(TRUE), "Yes")>>),
          Node("input-b", "input", "B",
               [NoConfig EXCEPT !.field = Some("cvss_score"), !.input_count = Some(1)],
               <<Cond("gte", PyFloat10(50), "High")>>),
          Node("output-x", "output", "X", [NoConfig EXCEPT !.decision = Some(PyStrV("X"))],
               <<>>)>>,
     edges |->
        <<Edge("e1", "input-a", "input-b", Some("handle-0"), Some("input-2"), Nothing),
          Edge("e2", "input-b", "output-x", Some("handle-0"), Nothing, Nothing)>>]

\* an Input node on cvss_score whose compound conditions mix a criterion on
\* the node's own value with criteria on an unmapped column
MixedCriteriaTree ==
    [nodes |->
        <<Node("input-mixed", "input", "Score or Custom",
               [NoConfig EXCEPT !.field = Some("cvss_score")],
               <<Compound("Urgent", "OR",
                     <<Crit(Nothing, "gte", PyFloat10(90)),
                       Crit(Some("custom"), "gte", PyInt(5))>>),
                 Compound("Watch", "AND",
                     <<Crit(Nothing, "gte", PyFloat10(70)),
                       Crit(Some("custom"), "lt", PyInt(5))>>),
                 Cond("is_not_null", PyNone, "Other")>>)>> \o Outputs,
     edges |->
        <<Edge("e1", "input-mixed", "output-act", Some("handle-0"), Nothing, Some("Urgent")),
          Edge("e2", "input-mixed", "output-attend", Some("handle-1"), Nothing,
               Some("Watch")),
          Edge("e3", "input-mixed", "output-track", Some("handle-2"), Nothing,
               Some("Other"))>>]

\* an Equation node with the formula of the EquationNode docstring, routed
\* by thresholds on the score
EquationTree ==
    [nodes |->
        <<Node("eq-risk", "equation", "Risk Score",
               [NoConfig EXCEPT
                    !.formula = Some("cvss_score * 0.4 + epss_score * 100 * 0.3 + (kev ? 30 : 0)"),
                    !.variables = <<"cvss_score", "epss_score", "kev">>],
               <<Cond("gte", PyFloat10(400), "High"),
                 Cond("lt", PyFloat10(400), "Low")>>)>> \o Outputs,
     edges |->
        <<Edge("e1", "eq-risk", "output-act", Some("handle-0"), Nothing, Some("High")),
          Edge("e2", "eq-risk", "output-track", Some("handle-1"), Nothing, Some("Low"))>>]

\* a multi-input node whose edges are resolved by slot handle, by plain
\* handle, by label and by the absence of label
FallbackTree ==
    [nodes |->
        <<Node("input-kev", "input", "KEV", [NoConfig EXCEPT !.field = Some("kev")],
               <<Cond("eq", PyBool(TRUE), "Active"), Cond("eq", PyBool(FALSE), "None")>>),
          Node("input-impact", "input", "Technical Impact",
               [NoConfig EXCEPT !.field = Some("cvss_score"), !.input_count = Some(2)],
               <<Cond("gte", PyFloat10(90), "Total"),
                 Cond("gte", PyFloat10(70), "Partial"),
                 Cond("lt", PyFloat10(70), "Low")>>)>> \o Outputs,
     edges |->
        <<Edge("e1", "input-kev", "input-impact", Some("handle-0"), Some("input-0"),
               Some("Active")),
          Edge("e2", "input-kev", "input-impact", Some("handle-1"), Some("input-1"),
               Some("None")),
          Edge("e3", "input-impact", "output-act", Some("handle-0-0"), Nothing,
               Some("Partial")),
          Edge("e4", "input-impact", "output-attend", Some("handle-1"), Nothing, Nothing),
          Edge("e5", "input-impact", "output-track", Nothing, Nothing, Some("Low"))>>]

\* TreeStructure()
EmptyTree == [nodes |-> <<>>, edges |-> <<>>]

Vuln(id, given) == VulnerabilityInput([id |-> PyStrV(id)] @@ given, <<>>)

\* a text on which the search of (a+)+$ outlives the time budget and then
\* finds a match
SlowHost == Repeat("a", 25) \o "!a"

Scenarios ==
    {[tree |-> SimpleTree, lookups |-> <<>>,
       records |-> {Vuln("v1", [cvss_score |-> PyFloat10(95)]),
                    Vuln("v2", [cvss_score |-> PyFloat10(75)]),
                    Vuln("v3", [cvss_score |-> PyFloat10(40)]),
                    Vuln("v4", <<>>)}],
      [tree |-> LookupTree, lookups |-> AssetLookups,
       records |-> {Vuln("v1", [cvss_score |-> PyFloat10(80), asset_id |-> PyStrV("srv-critical")]),
                    Vuln("v2", [cvss_score |-> PyFloat10(80), asset_id |-> PyStrV("srv-medium")]),
                    Vuln("v3", [cvss_score |-> PyFloat10(80), asset_id |-> PyStrV("srv-odd")]),
                    Vuln("v4", [cvss_score |-> PyFloat10(80)])}],
      [tree |-> CompoundTree, lookups |-> <<>>,
       records |-> {Vuln("v1", [cvss_vector |-> PyStrV("CVSS:3.1/AV:N/AC:L/PR:N")]),
                    VulnerabilityInput([id |-> PyStrV("v2")],
                        [cvss_av |-> PyStrV("Local"), cvss_ac |-> PyStrV("Low")]),
                    Vuln("v3", [cvss_vector |-> PyStrV("cvss:4.0/av:p/ac:h")]),
                    Vuln("v4", <<>>)}],
      [tree |-> MultiInputTree, lookups |-> <<>>,
       records |-> {Vuln("v1", [kev |-> PyBool(TRUE), cvss_score |-> PyFloat10(95)]),
                    Vuln("v2", [kev |-> PyBool(FALSE), cvss_score |-> PyFloat10(95)]),
                    Vuln("v3", [kev |-> PyBool(FALSE), cvss_score |-> PyFloat10(50)])}],
      [tree |-> CyclicTree, lookups |-> <<>>,
       records |-> {Vuln("v1", [cvss_score |-> PyFloat10(95)]),
                    Vuln("v2", [cvss_score |-> PyFloat10(40)])}],
      [tree |-> BrokenTree, lookups |-> <<>>,
       records |-> {Vuln("v1", [cvss_score |-> PyFloat10(95)]),
                    Vuln("v2", [cvss_score |-> PyFloat10(75)]),
                    Vuln("v3", [cvss_score |-> PyFloat10(20)]),
                    Vuln("v4", [cvss_score |-> PyFloat10(20), kev |-> PyBool(TRUE)]),
                    Vuln("v5", [cvss_score |-> PyFloat10(50)])}],
      [tree |-> CustomTree, lookups |-> AssetLookups,
       records |-> {VulnerabilityInput([id |-> PyStrV("v1")], [custom |-> PyStrV("abc")]),
                    VulnerabilityInput([id |-> PyStrV("v2")], [custom |-> PyStrV("7.5")]),
                    VulnerabilityInput([id |-> PyStrV("v3")], [custom |-> PyInt(3)]),
                    VulnerabilityInput([id |-> PyStrV("v4"), asset_id |-> PyStrV("srv-odd")],
                                       [custom |-> PyInt(8)])}],
      [tree |-> RegexTree, lookups |-> <<>>,
       records |-> {Vuln("v1", [hostname |-> PyStrV(SlowHost)]),
                    Vuln("v2", [hostname |-> PyStrV("aaa")]),
                    Vuln("v3", [hostname |-> PyStrV("srv-1")])}],
      [tree |-> SharedLabelTree, lookups |-> <<>>,
       records |-> {Vuln("v1", [kev |-> PyBool(TRUE), cvss_score |-> PyFloat10(75)]),
                    Vuln("v2", [kev |-> PyBool(FALSE), cvss_score |-> PyFloat10(95)]),
                    Vuln("v3", [kev |-> PyBool(TRUE), cvss_score |-> PyFloat10(40)])}],
      [tree |-> SlotOutOfBoundsTree, lookups |-> <<>>,
       records |-> {Vuln("v1", [kev |-> PyBool(TRUE), cvss_score |-> PyFloat10(90)]),
                    Vuln("v2", [kev |-> PyBool(FALSE), cvss_score |-> PyFloat10(90)])}],
      [tree |-> MixedCriteriaTree, lookups |-> <<>>,
       records |-> {VulnerabilityInput([id |-> PyStrV("v1"), cvss_score |-> PyFloat10(95)],
                                       [custom |-> PyStrV("abc")]),
                    VulnerabilityInput([id |-> PyStrV("v2"), cvss_score |-> PyFloat10(75)],
                                       [custom |-> PyInt(3)]),
                    VulnerabilityInput([id |-> PyStrV("v3"), cvss_score |-> PyFloat10(40)],
                                       [custom |-> PyInt(8)]),
                    VulnerabilityInput([id |-> PyStrV("v4"), cvss_score |-> PyFloat10(40)],
                                       [custom |-> PyInt(3)])}],
      [tree |-> EquationTree, lookups |-> <<>>,
       records |-> {Vuln("v1", [cvss_score |-> PyFloat10(95), epss_score |-> PyFloat10(5),
                                kev |-> PyBool(TRUE)]),
                    Vuln("v2", [cvss_score |-> PyFloat10(75), epss_score |-> PyFloat10(0),
                                kev |-> PyBool(FALSE)]),
                    Vuln("v3", [cvss_score |-> PyFloat10(40), kev |-> PyBool(TRUE)])}],
      [tree |-> FallbackTree, lookups |-> <<>>,
       records |-> {Vuln("v1", [kev |-> PyBool(TRUE), cvss_score |-> PyFloat10(95)]),
                    Vuln("v2", [kev |-> PyBool(TRUE), cvss_score |-> PyFloat10(75)]),
                    Vuln("v3", [kev |-> PyBool(FALSE), cvss_score |-> PyFloat10(95)]),
                    Vuln("v4", [kev |-> PyBool(FALSE), cvss_score |-> PyFloat10(40)])}],
      [tree |-> EmptyTree, lookups |-> <<>>,
       records |-> {Vuln("v1", [cvss_score |-> PyFloat10(90)])}]}

----------------------------------------------------------------------------
(* BatchProcessor.process_batch, run by BatchThread *)

IdlePool == [busy |-> 0, queue |-> <<>>, inline |-> FALSE]

\* no library function is being called directly
NoCall ==
    [name |-> "", pc |-> "idle", args |-> <<>>, locals |-> <<>>, result |-> <<>>,
     exc |-> Nothing, msg |-> ""]

NoResponse ==
    [total |-> 0, success_count |-> 0, error_count |-> 0, results |-> <<>>,
     decision_summary |-> <<>>]

\* batch.evaluated is the history of the evaluate calls that returned to
\* _process_chunk: what each was called with and what it returned
IdleBatch ==
    [pc |-> "loop", i |-> 0, chunk |-> <<>>, chunk_results |-> <<>>, results |-> <<>>,
     response |-> NoResponse, evaluated |-> <<>>]

\* all sequences over S of length at most n
SeqsUpTo(S, n) == UNION {[1..k -> S] : k \in 0..n}

ChunkFromStart(records, i, size) ==
    SubSeq(records, 1, IF size < Len(records) THEN size ELSE Len(records))

\* vulnerabilities[i : i + chunk_size], i counted from 0
Chunk(records, i, size) ==
    SubSeq(records, i + 1, IF i + size < Len(records) THEN i + size ELSE Len(records))

\* if result.error
HasError(result) == result.error # Nothing /\ result.error[1] # ""

\* error_count after the loop over results
ErrorCount(results) == Cardinality({k \in 1..Len(results) : HasError(results[k])})

DecisionSummaryOfAll(results) ==
    [d \in {results[k].decision : k \in 1..Len(results)} |->
        Cardinality({k \in 1..Len(results) : results[k].decision = d})]

\* dict(decision_counter) after the loop over results
DecisionSummary(results) ==
    LET counted == {k \in 1..Len(results) : ~HasError(results[k])}
    IN  [d \in {results[k].decision : k \in counted} |->
            Cardinality({k \in counted : results[k].decision = d})]

\* EvaluationResponse(...)
EvaluationResponse(results) ==
    [total |-> Len(results),
     success_count |-> Len(results) - ErrorCount(results),
     error_count |-> ErrorCount(results),
     results |-> results,
     decision_summary |-> DecisionSummary(results)]

\* BatchProcessor(tree_structure, chunk_size) and the arguments of process_batch
Init ==
    \E scenario \in Scenarios :
        /\ engine = BuildTree(scenario.tree)
        /\ lookups = scenario.lookups
        /\ include_path \in BOOLEAN
        /\ vulnerabilities \in SeqsUpTo(scenario.records, MaxBatch)
        /\ chunk_size \in 1..MaxChunk
        /\ batch = IdleBatch
        /\ calls = [t \in Threads |-> IdleCall]
        /\ pool = IdlePool
        /\ fn = NoCall

\* for i in range(0, len(vulnerabilities), self.chunk_size): chunk = ...
NextChunk ==
    /\ batch.pc = "loop"
    /\ batch.i < Len(vulnerabilities)
    /\ batch' = [batch EXCEPT !.pc = "chunk",
                              !.chunk = Chunk(vulnerabilities, batch.i, chunk_size),
                              !.chunk_results = <<>>]
    /\ UNCHANGED <<fn, engine, lookups, include_path, vulnerabilities, chunk_size, calls, pool>>

\* _process_chunk: self.engine.evaluate(vuln, lookups, include_path) is entered
CallEvaluate ==
    /\ batch.pc = "chunk"
    /\ Len(batch.chunk_results) < Len(batch.chunk)
    /\ calls[BatchThread].status = "idle"
    /\ calls' = [calls EXCEPT ![BatchThread] =
                    EvaluateBegin(engine, batch.chunk[Len(batch.chunk_results) + 1],
                                  include_path)]
    /\ UNCHANGED <<fn, engine, lookups, include_path, vulnerabilities, chunk_size, batch, pool>>

\* one pass of the while loop of evaluate in thread t, under either
\* scheduling of the searches it submits
EvaluateNode(t) ==
    /\ calls[t].status = "running"
    /\ \E inline \in BOOLEAN :
           LET Apply(s) ==
                   /\ calls' = [calls EXCEPT ![t] = s.call]
                   /\ pool' = [s.pool EXCEPT !.inline = FALSE]
           IN  Apply(EvaluateStep(engine, lookups, calls[t],
                                  [pool EXCEPT !.inline = inline]))
    /\ UNCHANGED <<fn, engine, lookups, include_path, vulnerabilities, chunk_size, batch>>

\* evaluate returns to the list comprehension of _process_chunk
EvaluateReturn ==
    /\ batch.pc = "chunk"
    /\ calls[BatchThread].status = "returned"
    /\ batch' = [batch EXCEPT
                    !.chunk_results = Append(@, calls[BatchThread].result),
                    !.evaluated = Append(@, [vulnerability |-> calls[BatchThread].vulnerability,
                                             include_path |-> calls[BatchThread].include_path,
                                             result |-> calls[BatchThread].result])]
    /\ calls' = [calls EXCEPT ![BatchThread] = IdleCall]
    /\ UNCHANGED <<fn, engine, lookups, include_path, vulnerabilities, chunk_size, pool>>

\* an exception leaves evaluate: nothing in _process_chunk or process_batch
\* catches it
EvaluateRaise ==
    /\ batch.pc = "chunk"
    /\ calls[BatchThread].status = "raised"
    /\ batch' = [batch EXCEPT !.pc = "raised"]
    /\ UNCHANGED <<fn, engine, lookups, include_path, vulnerabilities, chunk_size, calls, pool>>

\* results.extend(chunk_results) and the next value of i
ExtendResults ==
    /\ batch.pc = "chunk"
    /\ Len(batch.chunk_results) = Len(batch.chunk)
    /\ calls[BatchThread].status = "idle"
    /\ batch' = [batch EXCEPT !.pc = "loop",
                              !.results = @ \o batch.chunk_results,
                              !.i = @ + chunk_size]
    /\ UNCHANGED <<fn, engine, lookups, include_path, vulnerabilities, chunk_size, calls, pool>>

\* the counting loop and return EvaluationResponse(...)
Respond ==
    /\ batch.pc = "loop"
    /\ batch.i >= Len(vulnerabilities)
    /\ batch' = [batch EXCEPT !.pc = "done", !.response = EvaluationResponse(batch.results)]
    /\ UNCHANGED <<fn, engine, lookups, include_path, vulnerabilities, chunk_size, calls, pool>>

\* a worker of _REGEX_EXECUTOR ends its search and takes the next queued one
WorkerFinish ==
    /\ pool.busy > 0
    /\ pool' = IF pool.queue = <<>> THEN [pool EXCEPT !.busy = @ - 1]
               ELSE [pool EXCEPT !.queue = Tail(@)]
    /\ UNCHANGED <<fn, engine, lookups, include_path, vulnerabilities, chunk_size, batch, calls>>

Next ==
    \/ NextChunk
    \/ CallEvaluate
    \/ EvaluateNode(BatchThread)
    \/ EvaluateReturn
    \/ EvaluateRaise
    \/ ExtendResults
    \/ Respond
    \/ WorkerFinish

Spec == Init /\ [][Next]_vars

----------------------------------------------------------------------------
(* Concurrent evaluations: every thread of Threads calls evaluate once on   *)
(* the shared engine, thread t on vulnerabilities[t]                        *)

ConcInit ==
    \E scenario \in Scenarios :
        /\ engine = BuildTree(scenario.tree)
        /\ lookups = scenario.lookups
        /\ include_path \in BOOLEAN
        /\ vulnerabilities \in [Threads -> scenario.records]
        /\ chunk_size = 1
        /\ batch = [IdleBatch EXCEPT !.pc = "threads"]
        /\ calls = [t \in Threads |-> IdleCall]
        /\ pool = IdlePool
        /\ fn = NoCall

\* thread t enters self.engine.evaluate(vulnerabilities[t], lookups, include_path)
ThreadCall(t) ==
    /\ batch.pc = "threads"
    /\ calls[t].status = "idle"
    /\ calls' = [calls EXCEPT ![t] = EvaluateBegin(engine, vulnerabilities[t], include_path)]
    /\ UNCHANGED <<fn, engine, lookups, include_path, vulnerabilities, chunk_size, batch, pool>>

ConcNext ==
    \/ \E t \in Threads : ThreadCall(t)
    \/ \E t \in Threads : EvaluateNode(t)
    \/ WorkerFinish

ConcSpec == ConcInit /\ [][ConcNext]_vars

----------------------------------------------------------------------------
(* Structural validator (app/services/tree_validation.py).  A warning is   *)
(* [kind, id]: the kind of the message and the edge or node it names.      *)

Warning(kind, id) == [kind |-> kind, id |-> id]

\* node_ids
NodeIds(structure) == {structure.nodes[k].id : k \in 1..Len(structure.nodes)}

\* node_map[id]: of the nodes with this id, the dict keeps the last
NodeMap(structure, id) ==
    LET Last(ks) == structure.nodes[CHOOSE k \in ks : \A j \in ks : j <= k]
    IN  Last({k \in 1..Len(structure.nodes) : structure.nodes[k].id = id})

\* the first loop over structure.edges: the warnings of one edge
DanglingWarnings(structure, edge) ==
    (IF edge.source \notin NodeIds(structure)
     THEN <<Warning("source inexistant", edge.id)>> ELSE <<>>)
    \o (IF edge.target \notin NodeIds(structure)
        THEN <<Warning("cible inexistant", edge.id)>> ELSE <<>>)

\* the second loop over structure.edges: the warnings of one edge
HandleWarnings(structure, edge) ==
    LET Checked(source_node, handle) ==
            LET input_count == IF source_node.config.input_count # Nothing
                               THEN source_node.config.input_count[1] ELSE 1
                parts == Split(Remove(handle, "handle-"), "-")
                Warn(kind) == <<Warning(kind, edge.id)>>
                CondIdx(c) == IF c.n >= Len(source_node.conditions)
                              THEN Warn("condition_index") ELSE <<>>
                InputIdx(i) == IF i.n >= input_count THEN Warn("input_index") ELSE <<>>
                Both(i, c) == IF ~i.ok \/ ~c.ok THEN Warn("source_handle invalide")
                              ELSE InputIdx(i) \o CondIdx(c)
                One(c) == IF ~c.ok THEN Warn("source_handle invalide") ELSE CondIdx(c)
            IN  IF source_node.type = "output" THEN Warn("sort d'un noeud output")
                ELSE IF ~StartsWith(handle, "handle-") THEN <<>>
                ELSE IF input_count > 1 /\ Len(parts) = 2
                THEN Both(ParseInt(parts[1]), ParseInt(parts[2]))
                ELSE IF Len(parts) = 1 THEN One(ParseInt(parts[1]))
                ELSE <<>>
    IN  IF edge.source_handle # Nothing /\ edge.source_handle[1] # ""
           /\ edge.source \in NodeIds(structure)
        THEN Checked(NodeMap(structure, edge.source), edge.source_handle[1])
        ELSE <<>>

\* the check of the root nodes
RootWarnings(structure) ==
    LET target_nodes == {structure.edges[k].target : k \in 1..Len(structure.edges)}
    IN  IF NodeIds(structure) \ target_nodes = {}
        THEN <<Warning("Aucun noeud racine", "")>> ELSE <<>>

\* the loop over the equation nodes, one node: [exc, warnings]; only
\* FormulaError is caught
EquationWarnings(node) ==
    LET formula == IF node.config.formula # Nothing THEN node.config.formula[1] ELSE ""
        Validated(c) ==
            IF c.exc = Nothing THEN [exc |-> Nothing, warnings |-> <<>>]
            ELSE IF c.exc = Some("FormulaError")
            THEN [exc |-> Nothing, warnings |-> <<Warning("formule invalide", node.id)>>]
            ELSE [exc |-> c.exc, warnings |-> <<>>]
    IN  IF node.type # "equation" THEN [exc |-> Nothing, warnings |-> <<>>]
        ELSE IF formula = "" \/ Strip(formula) = ""
        THEN [exc |-> Nothing, warnings |-> <<Warning("pas de formule", node.id)>>]
        ELSE Validated(CheckFormula(formula))

\* the check of the output nodes
OutputWarnings(structure) ==
    IF \E k \in 1..Len(structure.nodes) : structure.nodes[k].type = "output"
    THEN <<>> ELSE <<Warning("aucun noeud de sortie", "")>>

\* adj[node_id]: the targets of the edges between existing nodes, in the
\* order of structure.edges
RECURSIVE Adjacent(_, _, _)
Adjacent(structure, edges, node_id) ==
    IF edges = <<>> THEN <<>>
    ELSE (IF Head(edges).source = node_id /\ Head(edges).target \in NodeIds(structure)
          THEN <<Head(edges).target>> ELSE <<>>)
         \o Adjacent(structure, Tail(edges), node_id)

\* has_cycle(node_id), neighbors the part of adj[node_id] its loop has yet
\* to see: [found, color]
RECURSIVE has_cycle(_, _, _, _)
has_cycle(structure, color, node_id, neighbors) ==
    LET Resume(r) == IF r.found THEN r
                     ELSE has_cycle(structure, r.color, node_id, Tail(neighbors))
        Enter(next) == has_cycle(structure, [color EXCEPT ![next] = "GRAY"], next,
                                 Adjacent(structure, structure.edges, next))
    IN  IF neighbors = <<>>
        THEN [found |-> FALSE, color |-> [color EXCEPT ![node_id] = "BLACK"]]
        ELSE IF color[Head(neighbors)] = "GRAY" THEN [found |-> TRUE, color |-> color]
        ELSE IF color[Head(neighbors)] = "WHITE" THEN Resume(Enter(Head(neighbors)))
        ELSE has_cycle(structure, color, node_id, Tail(neighbors))

\* the loop "for nid in node_ids", order the order the set iterates in
RECURSIVE CycleWarnings(_, _, _)
CycleWarnings(structure, color, order) ==
    LET Visited(r) == IF r.found THEN <<Warning("Cycle", "")>>
                      ELSE CycleWarnings(structure, r.color, Tail(order))
        Enter(next) == has_cycle(structure, [color EXCEPT ![next] = "GRAY"], next,
                                 Adjacent(structure, structure.edges, next))
    IN  IF order = <<>> THEN <<>>
        ELSE IF color[Head(order)] = "WHITE" THEN Visited(Enter(Head(order)))
        ELSE CycleWarnings(structure, color, Tail(order))

\* the warnings of a loop over seq, Of the warnings of one element
RECURSIVE Collect(_, _, _)
Collect(Of(_, _), structure, seq) ==
    IF seq = <<>> THEN <<>>
    ELSE Of(structure, Head(seq)) \o Collect(Of, structure, Tail(seq))

\* the loop over the equation nodes: [exc, warnings]
RECURSIVE EquationLoop(_)
EquationLoop(nodes) ==
    LET Rest(h, t) == IF t.exc # Nothing THEN t
                      ELSE [exc |-> Nothing, warnings |-> h.warnings \o t.warnings]
        OnHead(h) == IF h.exc # Nothing THEN h ELSE Rest(h, EquationLoop(Tail(nodes)))
    IN  IF nodes = <<>> THEN [exc |-> Nothing, warnings |-> <<>>]
        ELSE OnHead(EquationWarnings(Head(nodes)))

\* validate_tree_structure(structure): [exc, warnings]
ValidateTreeStructure(structure, order) ==
    LET Before == Collect(DanglingWarnings, structure, structure.edges)
                      \o Collect(HandleWarnings, structure, structure.edges)
                      \o RootWarnings(structure)
        After == OutputWarnings(structure)
                     \o CycleWarnings(structure, [id \in NodeIds(structure) |-> "WHITE"],
                                      order)
        Whole(eq) == IF eq.exc # Nothing THEN eq
                     ELSE [exc |-> Nothing, warnings |-> Before \o eq.warnings \o After]
    IN  IF structure.nodes = <<>>
        THEN [exc |-> Nothing, warnings |-> <<Warning("aucun noeud", "")>>]
        ELSE Whole(EquationLoop(structure.nodes))

----------------------------------------------------------------------------
(* Direct calls of the library functions: one call per behaviour, its       *)
(* arguments drawn from the sets below                                      *)

\* the variables dicts given to evaluate_formula, as the sequences of their items
FormulaVariables ==
    {<<<<"cvss_score", PyFloat10(95)>>, <<"epss_score", PyFloat10(5)>>, <<"kev", PyBool(TRUE)>>>>,
     <<<<"cvss_score", PyStrV("7.5")>>, <<"epss_score", PyInt(0)>>, <<"kev", PyBool(FALSE)>>>>,
     <<<<"cvss_score", PyFloat10(40)>>, <<"epss_score", PyNone>>, <<"kev", PyBool(TRUE)>>>>,
     <<<<"cvss_score", PyStrV("high")>>, <<"epss_score", PyInt(1)>>, <<"kev", PyBool(TRUE)>>>>,
     <<<<"cvss_score", PyList(<<PyInt(7)>>)>>, <<"kev", PyBool(FALSE)>>>>,
     <<>>}

\* the available_variables given to validate_formula
AvailableVariables ==
    {Nothing, Some(<<"cvss_score", "epss_score", "kev">>), Some(<<"cvss_score">>)}

\* the patterns and texts given to _safe_regex_match
RegexPatterns ==
    {"srv", "^a", "(a+)+$", "a{3}", "a{99999999999}", "(", "a**", Repeat("a", 201)}

RegexTexts == {"", "aaa", "srv-01", SlowHost}

\* the vectors given to parse_cvss_vector
CvssVectors ==
    {PyStrV("CVSS:3.1/AV:N/AC:L/PR:N"), PyStrV("CVSS:3.0/AV:N/AC:L/PR:N"),
     PyStrV("CVSS:4.0/AV:N/AC:L/AT:P"), PyStrV(" cvss:3.0/av:a/ac:h "),
     PyStrV("CVSS:3.0/AV:N/CVSS:3.1/AC:L"), PyStrV("CVSS:3.1/AV:N/CVSS:3.0/AC:L"),
     PyStrV("CVSS:3.0/AV:X/ZZ:1/AC/PR: L"), PyStrV("CVSS:3.0/"),
     PyStrV("cvss:3.1/av:n/ac:x"), PyStrV("CVSS:4.0/AV:N/AT:FUTURE/S:U"),
     PyStrV("AV:N/AC:L/PR:N"), PyStrV("CVSS:2.0/AV:N/AC:L"), PyStrV("CVSS:3.1"),
     PyStrV("CVSS:5.0/AV:N"), PyStrV("not a vector"), PyStrV(""), PyNone, PyInt(3),
     PyInt(0), PyBool(TRUE), PyList(<<PyStrV("CVSS:3.1/AV:N")>>), PyList(<<>>), PyDict}

\* the structures given to validate_tree_structure: those the engine is built
\* from, those of tests/test_tree_validation.py and variations of them
ValidatedStructures ==
    LET In(id, n) ==
            Node(id, "input", id, [NoConfig EXCEPT !.field = Some("x")],
                 SubSeq(<<Cond("eq", PyStrV("a"), "A"), Cond("eq", PyStrV("b"), "B")>>, 1, n))
        Multi(id) ==
            Node(id, "input", id,
                 [NoConfig EXCEPT !.field = Some("x"), !.input_count = Some(2)],
                 <<Cond("eq", PyStrV("a"), "A"), Cond("eq", PyStrV("b"), "B")>>)
        Eq(id, formula) ==
            Node(id, "equation", id, [NoConfig EXCEPT !.formula = formula],
                 <<Cond("gte", PyFloat10(400), "High")>>)
        Out(id) == Output(id, "X", Nothing)
        To(id, source, target, handle) ==
            Edge(id, source, target, handle, Nothing, Nothing)
        OneEdge(node, handle) ==
            [nodes |-> <<node, Out("out")>>,
             edges |-> <<To("e1", node.id, "out", handle)>>]
    IN  {SimpleTree, LookupTree, MultiInputTree, CyclicTree, BrokenTree, EquationTree,
         EmptyTree,
         \* TestCycleDetection.test_cycle_detected
         [nodes |-> <<In("n1", 1), In("n2", 1)>>,
          edges |-> <<To("e1", "n1", "n2", Some("handle-0")),
                      To("e2", "n2", "n1", Some("handle-0"))>>],
         \* a node that targets itself
         [nodes |-> <<In("n1", 2), Out("out")>>,
          edges |-> <<To("e1", "n1", "n1", Some("handle-0")),
                      To("e2", "n1", "out", Some("handle-1"))>>],
         \* two paths that meet again, no cycle
         [nodes |-> <<In("n1", 2), In("n2", 1), In("n3", 1), Out("out")>>,
          edges |-> <<To("e1", "n1", "n2", Some("handle-0")),
                      To("e2", "n1", "n3", Some("handle-1")),
                      To("e3", "n2", "out", Some("handle-0")),
                      To("e4", "n3", "n2", Some("handle-0"))>>],
         \* a cycle away from the root
         [nodes |-> <<In("n1", 1), Out("out"), In("n2", 1), In("n3", 1)>>,
          edges |-> <<To("e1", "n1", "out", Some("handle-0")),
                      To("e2", "n2", "n3", Some("handle-0")),
                      To("e3", "n3", "n2", Some("handle-0"))>>],
         \* a round trip through a node that does not exist
         [nodes |-> <<In("n1", 2), Out("out")>>,
          edges |-> <<To("e1", "n1", "ghost", Some("handle-0")),
                      To("e2", "ghost", "n1", Nothing),
                      To("e3", "n1", "out", Some("handle-1"))>>],
         \* TestInvalidEdges
         [nodes |-> <<Out("n1")>>, edges |-> <<To("e1", "nonexistent", "n1", Nothing)>>],
         [nodes |-> <<In("n1", 1)>>, edges |-> <<To("e1", "n1", "nonexistent", Nothing)>>],
         \* TestNoOutputNode
         [nodes |-> <<In("n1", 1)>>, edges |-> <<>>],
         \* TestInvalidHandles
         OneEdge(In("n1", 1), Some("handle-5")),
         [nodes |-> <<Out("out"), Out("n2")>>,
          edges |-> <<To("e1", "out", "n2", Some("handle-0"))>>],
         [nodes |-> <<Out("out"), Out("n2")>>,
          edges |-> <<To("e1", "out", "n2", Nothing)>>],
         OneEdge(In("n1", 2), Some("handle-0-5")),
         OneEdge(In("n1", 2), Some("handle-3-0")),
         OneEdge(In("n1", 2), Some("handle-x")),
         OneEdge(In("n1", 2), Some("handle-0-0")),
         OneEdge(In("n1", 2), Some("output")),
         OneEdge(In("n1", 2), Some("")),
         OneEdge(Multi("n1"), Some("handle-1-1")),
         OneEdge(Multi("n1"), Some("handle-2-1")),
         OneEdge(Multi("n1"), Some("handle-1-2")),
         OneEdge(Multi("n1"), Some("handle-1-")),
         OneEdge(Multi("n1"), Some("handle-1")),
         OneEdge(Multi("n1"), Some("handle-0-0-0")),
         \* equation nodes
         OneEdge(Eq("n1", Nothing), Some("handle-0")),
         OneEdge(Eq("n1", Some("   ")), Some("handle-0")),
         OneEdge(Eq("n1", Some("cvss_score.real")), Some("handle-0")),
         OneEdge(Eq("n1", Some("cvss_score +")), Some("handle-0")),
         OneEdge(Eq("n1", Some("max(cvss_score, 5) / epss_score")), Some("handle-0")),
         OneEdge(Eq("n1", Some(DeepFormula)), Some("handle-0"))}

\* the values of config.default_branch in direct calls: absent, indices of
\* a list of two conditions, and integers that are none
DefaultBranches == {Nothing, Some(0), Some(1), Some(2), Some(-1), Some(-3)}

\* an Input node or an Equation node with two conditions that no record
\* without cvss_score meets, and the given default_branch
DefaultBranchTree(type, default_branch) ==
    [nodes |->
        <<IF type = "input"
          THEN Node("input-cvss", "input", "CVSS Score",
                    [NoConfig EXCEPT !.field = Some("cvss_score"),
                                     !.default_branch = default_branch],
                    <<Cond("gte", PyFloat10(90), "High"),
                      Cond("gte", PyFloat10(70), "Medium")>>)
          ELSE Node("eq-risk", "equation", "Risk Score",
                    [NoConfig EXCEPT
                         !.formula = Some("cvss_score * 0.4 + epss_score * 100 * 0.3 + (kev ? 30 : 0)"),
                         !.variables = <<"cvss_score", "epss_score", "kev">>,
                         !.default_branch = default_branch],
                    <<Cond("gte", PyFloat10(300), "High"),
                      Cond("gte", PyFloat10(200), "Medium")>>)>> \o Outputs,
     edges |->
        <<Edge("e1", IF type = "input" THEN "input-cvss" ELSE "eq-risk", "output-act",
               Some("handle-0"), Nothing, Some("High")),
          Edge("e2", IF type = "input" THEN "input-cvss" ELSE "eq-risk", "output-attend",
               Some("handle-1"), Nothing, Some("Medium"))>>]

\* the structures an engine is built from in direct calls: the validated
\* ones, and structures with several nodes without incoming edge
BuiltStructures ==
    LET In(id, field) ==
            Node(id, "input", id, [NoConfig EXCEPT !.field = Some(field)],
                 <<Cond("is_not_null", PyNone, "Known"), Cond("is_null", PyNone, "Unknown")>>)
        Look(id) ==
            Node(id, "lookup", id,
                 [NoConfig EXCEPT !.lookup_table = Some("assets"),
                                  !.lookup_key = Some("asset_id"),
                                  !.lookup_field = Some("criticality"),
                                  !.default_branch = Some(0)],
                 <<Cond("eq", PyStrV("Critical"), "Critical")>>)
        To(id, source, target, handle) ==
            Edge(id, source, target, handle, Nothing, Nothing)
    IN  ValidatedStructures
        \cup {CompoundTree, MixedCriteriaTree}
        \cup {DefaultBranchTree(type, default_branch) :
                  type \in {"input", "equation"}, default_branch \in DefaultBranches}
        \cup {\* an Output node nothing leads to, placed first
              [nodes |-> <<Output("output-orphan", "Orphan", Nothing),
                           In("input-kev", "kev")>> \o Outputs,
               edges |-> <<To("e1", "input-kev", "output-act", Some("handle-0")),
                           To("e2", "input-kev", "output-track", Some("handle-1"))>>],
              \* a Lookup root placed before an Input node nothing leads to
              [nodes |-> <<Look("lookup-asset"), In("input-kev", "kev")>> \o Outputs,
               edges |-> <<To("e1", "lookup-asset", "output-act", Some("handle-0"))>>],
              \* a root that is not the first node
              [nodes |-> <<In("input-kev", "kev"), In("input-cvss", "cvss_score")>>
                             \o Outputs,
               edges |-> <<To("e1", "input-cvss", "input-kev", Some("handle-0")),
                           To("e2", "input-cvss", "output-attend", Some("handle-1")),
                           To("e3", "input-kev", "output-act", Some("handle-0")),
                           To("e4", "input-kev", "output-track", Some("handle-1"))>>],
              \* every node has an incoming edge and none is an Input node
              [nodes |-> <<Look("lookup-asset"), Output("output-act", "Act", Nothing)>>,
               edges |-> <<To("e1", "lookup-asset", "output-act", Some("handle-0")),
                           To("e2", "output-act", "lookup-asset", Nothing)>>]}

\* the records given to evaluate in direct calls
BuiltRecords ==
    {Vuln("v1", [cvss_score |-> PyFloat10(95), kev |-> PyBool(TRUE)]),
     Vuln("v2", <<>>)}

\* the members of ConditionOperator
ConditionOperators ==
    {"eq", "neq", "gt", "gte", "lt", "lte", "contains", "not_contains", "regex",
     "in", "not_in", "is_null", "is_not_null"}

\* the subject values given to _evaluate_simple
SimpleValues == {PyNone, PyFloat10(95), PyInt(0), PyBool(TRUE), PyStrV("srv-01"), PyStrV("None")}

\* the reference values given to _evaluate_simple
SimpleCondValues ==
    {PyNone, PyFloat10(70), PyStrV("srv"), PyStrV("None"), PyStrV("a,None,srv-01"),
     PyList(<<PyNone, PyStrV("srv-01")>>)}


\* the records given to _get_field_value: hostname and cvss_vector declared
\* or not, and an extra map with or without entries of the same names
FieldRecords ==
    LET NoExtra == [k \in {"hostname", "custom", "cvss_av", "cvss_vector", "extra"} |-> PyNone]
    IN  {VulnerabilityInput([id |-> PyStrV("v1")] @@ given, extra) :
             given \in {[hostname |-> PyNone],
                        [hostname |-> PyStrV("srv-01")],
                        [hostname |-> PyNone,
                         cvss_vector |-> PyStrV("CVSS:3.1/AV:N/AC:L/PR:N")],
                        [hostname |-> PyStrV("srv-01"),
                         cvss_vector |-> PyStrV("CVSS:3.1/AV:N/AC:L/PR:N")]},
             extra \in {NoExtra,
                        [NoExtra EXCEPT !.hostname = PyStrV("other"), !.custom = PyInt(7)],
                        [NoExtra EXCEPT !.cvss_av = PyStrV("Manual")],
                        [NoExtra EXCEPT !.cvss_vector = PyStrV("CVSS:4.0/AV:L/AC:L/AT:P")],
                        [NoExtra EXCEPT !.extra = PyStrV("inner")]}}

\* the field names given to _get_field_value
FieldNames ==
    {"hostname", "custom", "cvss_av", "cvss_at", "cvss_vector", "cvss_score", "extra", "missing"}


FnCall(name, args) == [NoCall EXCEPT !.name = name, !.pc = "start", !.args = args]

FnCalls ==
    {FnCall("validate_formula", [formula |-> Formulas[k].text, available_variables |-> a]) :
         k \in 1..Len(Formulas), a \in AvailableVariables}
    \cup {FnCall("evaluate_formula", [formula |-> Formulas[k].text, variables |-> v]) :
              k \in 1..Len(Formulas), v \in FormulaVariables}
    \cup {FnCall("_safe_regex_match", [pattern |-> pattern, text |-> text]) :
              pattern \in RegexPatterns, text \in RegexTexts}
    \cup {FnCall("parse_cvss_vector", [vector |-> vector]) : vector \in CvssVectors}
    \cup {FnCall("validate_tree_structure", [structure |-> structure]) :
              structure \in ValidatedStructures}
    \cup {FnCall("_evaluate_simple", [value |-> value, op |-> op, cond_value |-> cond_value]) :
              value \in SimpleValues, op \in ConditionOperators,
              cond_value \in SimpleCondValues}
    \cup {FnCall("_get_field_value", [vulnerability |-> vulnerability, field |-> field]) :
              vulnerability \in FieldRecords, field \in FieldNames}
    \cup {FnCall(name, [structure |-> structure]) :
              name \in {"get_required_fields", "get_lookup_tables"},
              structure \in BuiltStructures}
    \cup {FnCall("evaluate", [structure |-> structure, vulnerability |-> vulnerability]) :
              structure \in BuiltStructures, vulnerability \in BuiltRecords}

FnInit ==
    /\ engine = BuildTree(EmptyTree)
    /\ lookups = <<>>
    /\ include_path = FALSE
    /\ vulnerabilities = <<>>
    /\ chunk_size = 1
    /\ batch = IdleBatch
    /\ calls = [t \in Threads |-> IdleCall]
    /\ fn \in FnCalls
    /\ pool \in IF fn.name = "_safe_regex_match"
               THEN {[IdlePool EXCEPT !.busy = b] : b \in 0..MAX_WORKERS}
               ELSE {IdlePool}

FnRaise(call, r) == [call EXCEPT !.pc = "raised", !.exc = r.exc, !.msg = r.msg]

FnUnchanged ==
    UNCHANGED <<engine, lookups, include_path, vulnerabilities, chunk_size, batch, calls, pool>>

\* validate_formula and evaluate_formula up to and including _validate_node(tree)
FormulaCheck ==
    /\ fn.name \in {"validate_formula", "evaluate_formula"}
    /\ fn.pc = "start"
    /\ LET Checked(c) ==
               IF c.exc # Nothing THEN FnRaise(fn, c)
               ELSE [fn EXCEPT !.pc = "validated", !.locals = [tree |-> c.tree[1]]]
       IN  fn' = Checked(CheckFormula(fn.args.formula))
    /\ FnUnchanged

\* validate_formula from extract_variables to its return
ValidateFormulaReturn ==
    /\ fn.name = "validate_formula"
    /\ fn.pc = "validated"
    /\ LET Checked(c) ==
               IF c.exc # Nothing THEN FnRaise(fn, c)
               ELSE [fn EXCEPT !.pc = "returned", !.result = c.variables]
       IN  fn' = Checked(CheckVariables(fn.locals.tree, fn.args.available_variables))
    /\ FnUnchanged

\* evaluate_formula: the loop that fills safe_vars
FormulaCoerce ==
    /\ fn.name = "evaluate_formula"
    /\ fn.pc = "validated"
    /\ LET Coerced(s) ==
               IF s.exc # Nothing THEN FnRaise(fn, s)
               ELSE [fn EXCEPT !.pc = "coerced", !.locals = fn.locals @@ [safe_vars |-> s.env]]
       IN  fn' = Coerced(SafeVars(fn.args.variables, <<>>))
    /\ FnUnchanged

\* evaluate_formula: compile and eval
FormulaEval ==
    /\ fn.name = "evaluate_formula"
    /\ fn.pc = "coerced"
    /\ LET Evaluated(e) ==
               IF e.exc # Nothing THEN FnRaise(fn, e)
               ELSE [fn EXCEPT !.pc = "evaluated", !.locals = fn.locals @@ [result |-> e.v]]
       IN  fn' = Evaluated(EvalFormula(fn.locals.tree, fn.locals.safe_vars))
    /\ FnUnchanged

\* evaluate_formula: the conversion of result and the return
FormulaReturn ==
    /\ fn.name = "evaluate_formula"
    /\ fn.pc = "evaluated"
    /\ LET Converted(r) ==
               IF r.exc # Nothing THEN FnRaise(fn, r)
               ELSE [fn EXCEPT !.pc = "returned", !.result = r.result]
       IN  fn' = Converted(FormulaResult(fn.locals.result))
    /\ FnUnchanged

\* _safe_regex_match, under either scheduling of the search it submits
RegexMatch ==
    /\ fn.name = "_safe_regex_match"
    /\ fn.pc = "start"
    /\ \E inline \in BOOLEAN :
           LET Done(r) ==
                   /\ fn' = IF r.exc # Nothing THEN FnRaise(fn, [exc |-> r.exc, msg |-> ""])
                            ELSE [fn EXCEPT !.pc = "returned", !.result = r.res]
                   /\ pool' = [r.pool EXCEPT !.inline = FALSE]
           IN  Done(SafeRegexMatch(fn.args.pattern, fn.args.text,
                                   [pool EXCEPT !.inline = inline]))
    /\ UNCHANGED <<engine, lookups, include_path, vulnerabilities, chunk_size, batch, calls>>

\* parse_cvss_vector(vector); a str method called on another value raises
\* AttributeError
ParseCvss ==
    /\ fn.name = "parse_cvss_vector"
    /\ fn.pc = "start"
    /\ fn' = IF DetectCvssVersion(fn.args.vector) = Nothing
             THEN [fn EXCEPT !.pc = "returned", !.result = <<>>]
             ELSE IF fn.args.vector.t # "str"
             THEN FnRaise(fn, [exc |-> Some("AttributeError"), msg |-> ""])
             ELSE [fn EXCEPT !.pc = "returned", !.result = ParseCvssVector(fn.args.vector)]
    /\ FnUnchanged

\* the caller decodes the same vector once more
ParseCvssAgain ==
    /\ fn.name = "parse_cvss_vector"
    /\ fn.pc = "returned"
    /\ fn' = [fn EXCEPT !.pc = "returned twice",
                        !.locals = [again |-> ParseCvssVector(fn.args.vector)]]
    /\ FnUnchanged

\* the orders a set of ids can iterate in
RECURSIVE Orders(_)
Orders(ids) ==
    IF ids = {} THEN {<<>>}
    ELSE UNION {{<<id>> \o order : order \in Orders(ids \ {id})} : id \in ids}

\* validate_tree_structure(structure); the set node_ids iterates in any order
ValidateTree ==
    /\ fn.name = "validate_tree_structure"
    /\ fn.pc = "start"
    /\ \E order \in Orders(NodeIds(fn.args.structure)) :
           LET Done(r) ==
                   IF r.exc # Nothing THEN FnRaise(fn, [exc |-> r.exc, msg |-> ""])
                   ELSE [fn EXCEPT !.pc = "returned", !.result = r.warnings]
           IN  fn' = Done(ValidateTreeStructure(fn.args.structure, order))
    /\ FnUnchanged

\* BaseNode._evaluate_simple(value, op, cond_value)
EvaluateSimpleCall ==
    /\ fn.name = "_evaluate_simple"
    /\ fn.pc = "start"
    /\ LET Done(r) ==
               /\ fn' = IF r.exc # Nothing THEN FnRaise(fn, [exc |-> r.exc, msg |-> ""])
                        ELSE [fn EXCEPT !.pc = "returned", !.result = r.res]
               /\ pool' = r.pool
       IN  Done(EvaluateSimple(fn.args.value, fn.args.op, fn.args.cond_value, pool))
    /\ UNCHANGED <<engine, lookups, include_path, vulnerabilities, chunk_size, batch, calls>>

\* BaseNode._get_field_value(context, field)
GetFieldValueCall ==
    /\ fn.name = "_get_field_value"
    /\ fn.pc = "start"
    /\ fn' = [fn EXCEPT !.pc = "returned",
                        !.result = GetFieldValue([vulnerability |-> fn.args.vulnerability,
                                                  lookups |-> lookups],
                                                 fn.args.field)]
    /\ FnUnchanged

\* the methods of InferenceEngine that are called directly
EngineMethods == {"evaluate", "get_required_fields", "get_lookup_tables"}

\* InferenceEngine(tree_structure)
BuildEngine ==
    /\ fn.name \in EngineMethods
    /\ fn.pc = "start"
    /\ engine' = BuildTree(fn.args.structure)
    /\ fn' = [fn EXCEPT !.pc = "built"]
    /\ UNCHANGED <<lookups, include_path, vulnerabilities, chunk_size, batch, calls, pool>>

\* engine.evaluate(vulnerability) is entered on the engine just built; its
\* passes are those of EvaluateNode
EvaluateBuilt ==
    /\ fn.name = "evaluate"
    /\ fn.pc = "built"
    /\ calls' = [calls EXCEPT ![BatchThread] =
                    EvaluateBegin(engine, fn.args.vulnerability, TRUE)]
    /\ fn' = [fn EXCEPT !.pc = "evaluating"]
    /\ UNCHANGED <<engine, lookups, include_path, vulnerabilities, chunk_size, batch, pool>>

\* evaluate returns to the caller, or an exception leaves it
EvaluateBuiltEnd ==
    /\ fn.name = "evaluate"
    /\ fn.pc = "evaluating"
    /\ calls[BatchThread].status \in {"returned", "raised"}
    /\ fn' = IF calls[BatchThread].status = "raised"
             THEN FnRaise(fn, [exc |-> calls[BatchThread].exc, msg |-> ""])
             ELSE [fn EXCEPT !.pc = "returned", !.result = calls[BatchThread].result]
    /\ calls' = [calls EXCEPT ![BatchThread] = IdleCall]
    /\ UNCHANGED <<engine, lookups, include_path, vulnerabilities, chunk_size, batch, pool>>

\* engine.get_required_fields() and engine.get_lookup_tables() on the engine
\* just built
Introspect ==
    /\ fn.name \in {"get_required_fields", "get_lookup_tables"}
    /\ fn.pc = "built"
    /\ fn' = [fn EXCEPT !.pc = "returned",
                        !.result = IF fn.name = "get_required_fields"
                                   THEN GetRequiredFields(engine)
                                   ELSE GetLookupTables(engine)]
    /\ FnUnchanged

FnNext ==
    \/ Introspect
    \/ GetFieldValueCall
    \/ EvaluateSimpleCall
    \/ BuildEngine
    \/ EvaluateBuilt
    \/ EvaluateNode(BatchThread)
    \/ EvaluateBuiltEnd
    \/ ValidateTree
    \/ ParseCvss
    \/ ParseCvssAgain
    \/ RegexMatch
    \/ WorkerFinish
    \/ FormulaCheck
    \/ ValidateFormulaReturn
    \/ FormulaCoerce
    \/ FormulaEval
    \/ FormulaReturn

FnSpec == FnInit /\ [][FnNext]_vars

----------------------------------------------------------------------------
(* Properties *)

\* the states of the executor a call can start in
PoolStates ==
    {[busy |-> b, queue |-> <<>>, inline |-> inline] : b \in 0..MAX_WORKERS, inline \in BOOLEAN}

\* the context evaluate builds for a call
ContextOf(call) == [vulnerability |-> call.vulnerability, lookups |-> lookups]

\* the results process_batch has collected so far
Collected ==
    IF batch.pc \in {"chunk", "raised"} THEN batch.results \o batch.chunk_results
    ELSE batch.results

RECURSIVE SumValues(_)
\* sum(f.values())
SumValues(f) ==
    IF DOMAIN f = {} THEN 0
    ELSE LET d == CHOOSE x \in DOMAIN f : TRUE
         IN  f[d] + SumValues([x \in DOMAIN f \ {d} |-> f[x]])

\* C1: evaluate never makes more than max_iterations (100) passes of its
\* loop, and a call that has made 100 passes without reaching an Output node
\* or an error returns next, with decision "Error" and a non-null error.
C1_IterationCap ==
    /\ [](\A t \in Threads : calls[t].iteration <= max_iterations)
    /\ [][\A t \in Threads :
            (/\ calls[t].status = "running"
             /\ calls[t].iteration = max_iterations
             /\ calls'[t] # calls[t])
            => /\ calls'[t].status = "returned"
               /\ calls'[t].result.decision = "Error"
               /\ calls'[t].result.error # Nothing]_vars

\* C1 witness: a call on the cyclic structure returned the cap error after
\* 100 passes
C1_CapReached ==
    \E t \in Threads :
        /\ calls[t].status = "returned"
        /\ calls[t].iteration = max_iterations
        /\ calls[t].result.decision = "Error"
        /\ calls[t].result.error =
               Some("Limite d'iterations atteinte (boucle infinie detectee?)")

\* C2: process_batch is never aborted by a record: no exception leaves it,
\* and its response holds one result per input record.
C2_BatchNeverAborted ==
    /\ batch.pc # "raised"
    /\ batch.pc = "done" => Len(batch.response.results) = Len(vulnerabilities)

\* the node of a running call is missing, or its evaluation raises
\* NodeEvaluationError
NodeFails(call, p) ==
    \/ NodesGet(engine, call.current_node_id) = Nothing
    \/ NodeEvaluate(NodesGet(engine, call.current_node_id)[1], ContextOf(call), p).exc
           = Some("NodeEvaluationError")

\* the result of a returned call carries the decision and colour of the
\* Output node the call stopped on
ReachedOutput(call) ==
    LET got == NodesGet(engine, call.current_node_id)
    IN  /\ got # Nothing
        /\ got[1].type = "output"
        /\ call.result.decision = ToStr(OutputNodeEvaluate(got[1], ContextOf(call), pool).value)
        /\ call.result.decision_color = got[1].config.color

\* C3: when the node of a pass is not in the structure or its evaluation
\* raises NodeEvaluationError, evaluate returns (does not raise) a result
\* with decision "Error", a non-null error and no decision_color; and every
\* returned result whose error is null carries the decision of an Output
\* node the traversal reached.
C3_NodeErrorsAreResults ==
    /\ [](\A t \in Threads :
            (calls[t].status = "returned" /\ calls[t].result.error = Nothing)
            => ReachedOutput(calls[t]))
    /\ [][\A t \in Threads, inline \in BOOLEAN :
            (/\ calls[t].status = "running"
             /\ WhileTest(calls[t].iteration)
             /\ NodeFails(calls[t], [pool EXCEPT !.inline = inline])
             /\ calls'[t] = EvaluateStep(engine, lookups, calls[t],
                                         [pool EXCEPT !.inline = inline]).call
             /\ calls'[t] # calls[t])
            => /\ calls'[t].status = "returned"
               /\ calls'[t].result.decision = "Error"
               /\ calls'[t].result.error # Nothing
               /\ calls'[t].result.decision_color = Nothing]_vars

\* C3 witness: a call returned the error of an Input node without field
C3_NodeErrorReturned ==
    \E t \in Threads :
        /\ calls[t].status = "returned"
        /\ calls[t].result.decision = "Error"
        /\ calls[t].result.error = Some("champ 'field' non configure")

\* C4: an ordering operator on an operand that float() rejects ends the
\* call with an Error result: neither ValueError nor TypeError leaves
\* evaluate.
C4_OrderingErrorIsResult ==
    \A t \in Threads :
        calls[t].status = "raised" => calls[t].exc \notin {Some("ValueError"), Some("TypeError")}

\* C5: the response of process_batch has total = number of input records =
\* success_count + error_count, error_count is the number of results with a
\* non-null error, and decision_summary counts, per decision, the results
\* without error, so that its values sum to success_count.
C5_ResponseCounts ==
    batch.pc = "done" =>
        LET r == batch.response
            failed == {k \in 1..Len(r.results) : r.results[k].error # Nothing}
            passed == (1..Len(r.results)) \ failed
        IN  /\ r.total = Len(vulnerabilities)
            /\ r.total = r.success_count + r.error_count
            /\ r.error_count = Cardinality(failed)
            /\ SumValues(r.decision_summary) = r.success_count
            /\ DOMAIN r.decision_summary = {r.results[k].decision : k \in passed}
            /\ \A d \in DOMAIN r.decision_summary :
                   r.decision_summary[d]
                       = Cardinality({k \in passed : r.results[k].decision = d})

\* C5 witness: a response that counts both successes and errors
C5_MixedResponse ==
    /\ batch.pc = "done"
    /\ batch.response.error_count > 0
    /\ batch.response.success_count > 1

\* what evaluate can return for a record, over the states the executor can
\* be in when the call is made
Outcomes(vulnerability, with_path) ==
    {Evaluate(engine, vulnerability, lookups, with_path, p).call.result : p \in PoolStates}

\* C6: for every chunk_size >= 1 the results of process_batch are, in input
\* order, the results of the evaluate calls made on records[1], records[2],
\* ... with the lookups and include_path of the batch: the k-th result
\* collected is what the k-th call returned, that call was made on
\* records[k], and the response holds one such result per record.
C6_ResultsInInputOrder ==
    /\ Len(Collected) = Len(batch.evaluated)
    /\ \A k \in 1..Len(Collected) :
           /\ batch.evaluated[k].vulnerability = vulnerabilities[k]
           /\ batch.evaluated[k].include_path = include_path
           /\ Collected[k] = batch.evaluated[k].result
    /\ batch.pc = "done" =>
           /\ Len(batch.response.results) = Len(vulnerabilities)
           /\ \A k \in 1..Len(vulnerabilities) :
                  batch.response.results[k] \in Outcomes(vulnerabilities[k], include_path)

\* C6 witness: a batch of three records with different outcomes was
\* evaluated in chunks of two
C6_ChunkedBatchDone ==
    /\ batch.pc = "done"
    /\ chunk_size = 2
    /\ Len(vulnerabilities) = 3
    /\ batch.response.results[1].decision # batch.response.results[3].decision
    /\ batch.response.results[2].decision # batch.response.results[3].decision

\* C7: two evaluate calls on the same engine with the same record, lookups
\* and include_path return identical results, whatever was evaluated in
\* between.
C7_Deterministic ==
    \A j, k \in 1..Len(batch.evaluated) :
        batch.evaluated[j].vulnerability = batch.evaluated[k].vulnerability
        => batch.evaluated[j].result = batch.evaluated[k].result

\* how a call on a record can end when it runs alone on the engine, under
\* either scheduling of its searches
Alone(vulnerability) ==
    {[status |-> end.status, result |-> end.result, exc |-> end.exc] :
        end \in {Evaluate(engine, vulnerability, lookups, include_path,
                          [IdlePool EXCEPT !.inline = inline]).call : inline \in BOOLEAN}}

\* C8: in every interleaving of concurrent evaluate calls on one engine,
\* each call ends with the result it would have when run alone.
C8_ConcurrentAsAlone ==
    \A t \in Threads :
        calls[t].status \in {"returned", "raised"}
        => [status |-> calls[t].status, result |-> calls[t].result, exc |-> calls[t].exc]
               \in Alone(calls[t].vulnerability)

\* path is a walk of the structure from the root to an Output node
IsWalkToOutput(path) ==
    /\ path # <<>>
    /\ Some(path[1].node_id) = engine.root_node_id
    /\ \A k \in 1..(Len(path) - 1) :
           /\ path[k].node_type # "output"
           /\ \E e \in 1..Len(engine.tree_structure.edges) :
                  /\ engine.tree_structure.edges[e].source = path[k].node_id
                  /\ engine.tree_structure.edges[e].target = path[k + 1].node_id
    /\ path[Len(path)].node_type = "output"
    /\ NodesGet(engine, path[Len(path)].node_id) # Nothing
    /\ NodesGet(engine, path[Len(path)].node_id)[1].type = "output"

\* C9: with include_path = true the path of every result without error
\* starts at the root, each next step is the target of an edge leaving the
\* node of the step before, the last step is an Output node and no earlier
\* step is.
C9_PathIsWalk ==
    \A t \in Threads :
        (/\ calls[t].status = "returned"
         /\ calls[t].include_path
         /\ calls[t].result.error = Nothing)
        => IsWalkToOutput(calls[t].result.path)

\* C9 witness: a call returned a decision with a path of three steps
C9_LongPathReturned ==
    \E t \in Threads :
        /\ calls[t].status = "returned"
        /\ calls[t].include_path
        /\ calls[t].result.error = Nothing
        /\ Len(calls[t].result.path) = 3

\* evaluate with include_path = false ends as evaluate with include_path =
\* true does, with the same decision, decision_color and error, and an
\* empty path
SameButPath(vulnerability, p) ==
    LET with == Evaluate(engine, vulnerability, lookups, TRUE, p).call
        without == Evaluate(engine, vulnerability, lookups, FALSE, p).call
    IN  /\ without.status = with.status
        /\ without.exc = with.exc
        /\ without.result.path = <<>>
        /\ without.result.decision = with.result.decision
        /\ without.result.decision_color = with.result.decision_color
        /\ without.result.error = with.result.error

\* C10: for every record, evaluate with include_path = false returns an
\* empty path and the decision, decision_color and error that evaluate with
\* include_path = true returns on the same inputs; the results of a batch
\* run with include_path = false have empty paths.
C10_PathFlagOnlyChangesPath ==
    batch.pc = "done" =>
        /\ \A k \in 1..Len(vulnerabilities) :
               \A p \in PoolStates : SameButPath(vulnerabilities[k], p)
        /\ ~include_path =>
               \A k \in 1..Len(batch.response.results) :
                   batch.response.results[k].path = <<>>

\* C10 witness: a batch run with include_path = false returned a decision
\* reached through three nodes and an error
C10_BatchWithoutPathDone ==
    /\ batch.pc = "done"
    /\ ~include_path
    /\ \E k \in 1..Len(vulnerabilities) :
           /\ batch.response.results[k].error = Nothing
           /\ Len(Evaluate(engine, vulnerabilities[k], lookups, TRUE, IdlePool)
                      .call.result.path) = 3
    /\ \E k \in 1..Len(vulnerabilities) : batch.response.results[k].error # Nothing

----------------------------------------------------------------------------
(* Routing: first matching condition, input slots, Lookup nodes            *)

\* C11: on Input(cvss_score) with conditions >= 9.0, >= 7.0, < 7.0 routed to
\* Act, Attend, Track, the first true condition in declared order wins: a
\* score >= 9 gives Act with a path of length 2, a score in [7, 9) gives
\* Attend, a score < 7 gives Track, and a record without cvss_score gives
\* decision "Error"; no exception leaves evaluate.
C11_FirstMatchWins ==
    engine.tree_structure = SimpleTree =>
        \A t \in Threads :
            /\ calls[t].status # "raised"
            /\ calls[t].status = "returned" =>
                   LET score == calls[t].vulnerability.fields.cvss_score
                       result == calls[t].result
                   IN  /\ score.t = "none" =>
                              result.decision = "Error" /\ result.error # Nothing
                       /\ (IsNumber(score) /\ score.n >= 90) =>
                              /\ result.decision = "Act"
                              /\ calls[t].include_path => Len(result.path) = 2
                       /\ (IsNumber(score) /\ score.n >= 70 /\ score.n < 90) =>
                              result.decision = "Attend"
                       /\ (IsNumber(score) /\ score.n < 70) => result.decision = "Track"

\* C11 witness: a batch on that structure returned Act (score 9.5, where the
\* second condition is true as well), Attend and an Error
C11_AllBranchesReturned ==
    /\ engine.tree_structure = SimpleTree
    /\ batch.pc = "done"
    /\ \E j, k, l \in 1..Len(batch.response.results) :
           /\ vulnerabilities[j].fields.cvss_score = PyFloat10(95)
           /\ batch.response.results[j].decision = "Act"
           /\ batch.response.results[k].decision = "Attend"
           /\ batch.response.results[l].decision = "Error"

\* the source_handle of the edge that leaves a node entered through slot s
\* when its condition of index c matched
SlotHandle(s, c) == Some("handle-" \o ToString(s) \o "-" \o ToString(c))

\* the condition of an Input node that matches the record of call: <<>> or
\* <<[index, label]>>
MatchedCondition(node, call, p) ==
    IF node.type = "input" /\ node.config.field # Nothing /\ node.config.field # Some("")
    THEN MatchCondition(node, GetFieldValue(ContextOf(call), node.config.field[1]),
                        ContextOf(call), p).match
    ELSE Nothing

\* C12: a pass on a node with input_count > 1 that was entered through
\* target_handle "input-s" and whose matched condition has index c goes to
\* the target of an edge of the node whose source_handle is "handle-s-c",
\* whenever the node has such an edge.
C12_SlotHandleFollowed ==
    [][\A t \in Threads, inline \in BOOLEAN :
        LET p == [pool EXCEPT !.inline = inline]
            got == NodesGet(engine, calls[t].current_node_id)
            Routed(node, m, s) ==
                (/\ m # Nothing
                 /\ \E k \in 1..Len(engine.tree_structure.edges) :
                        /\ engine.tree_structure.edges[k].source = node.id
                        /\ engine.tree_structure.edges[k].source_handle
                               = SlotHandle(s, m[1].index))
                => /\ calls'[t].status = "running"
                   /\ \E k \in 1..Len(engine.tree_structure.edges) :
                          /\ engine.tree_structure.edges[k].source = node.id
                          /\ engine.tree_structure.edges[k].source_handle
                                 = SlotHandle(s, m[1].index)
                          /\ engine.tree_structure.edges[k].target
                                 = calls'[t].current_node_id
        IN  (/\ calls[t].status = "running"
             /\ WhileTest(calls[t].iteration)
             /\ got # Nothing
             /\ got[1].config.input_count # Nothing
             /\ got[1].config.input_count[1] > 1
             /\ calls[t].current_input_index # Nothing
             /\ calls'[t] = EvaluateStep(engine, lookups, calls[t], p).call
             /\ calls'[t] # calls[t])
            => Routed(got[1], MatchedCondition(got[1], calls[t], p),
                      calls[t].current_input_index[1])]_vars

\* C13: a pass on a node that was entered through target_handle "input-n"
\* with n not below the node's input_count ends the call with decision
\* "Error" and an error message that mentions input_index.
C13_SlotOutOfBoundsIsError ==
    [][\A t \in Threads :
        LET got == NodesGet(engine, calls[t].current_node_id)
            Count(node) ==
                IF node.config.input_count # Nothing THEN node.config.input_count[1] ELSE 1
        IN  (/\ calls[t].status = "running"
             /\ WhileTest(calls[t].iteration)
             /\ got # Nothing
             /\ calls[t].current_input_index # Nothing
             /\ calls[t].current_input_index[1] >= Count(got[1])
             /\ calls'[t] # calls[t])
            => /\ calls'[t].status = "returned"
               /\ calls'[t].result.decision = "Error"
               /\ calls'[t].result.error # Nothing
               /\ Contains(calls'[t].result.error[1], "input_index")]_vars

\* the key a Lookup node reads from the record of call
LookupKeyOf(node, call) ==
    IF Truthy(VulnGet(call.vulnerability, node.config.lookup_key[1]))
    THEN VulnGet(call.vulnerability, node.config.lookup_key[1])
    ELSE ExtraGet(call.vulnerability, node.config.lookup_key[1])

\* the row lookups[lookup_table][str(key)]: <<>> or <<row>>
LookupRowOf(node, call) ==
    LET Row(table, key) ==
            IF table \in DOMAIN lookups /\ key.t # "none"
               /\ ToStr(key) \in DOMAIN lookups[table]
            THEN Some(lookups[table][ToStr(key)]) ELSE Nothing
    IN  Row(node.config.lookup_table[1], LookupKeyOf(node, call))

\* after is the call after a pass on node that routed with the condition
\* of index idx: no exception, and the edge of that condition is followed
\* when there is one
RoutedWith(node, call, idx, after) ==
    LET Count == IF node.config.input_count # Nothing THEN node.config.input_count[1] ELSE 1
        To(next) ==
            /\ after.status # "raised"
            /\ next.target # Nothing =>
                   after.status = "running" /\ after.current_node_id = next.target[1]
            /\ next.target = Nothing =>
                   after.status = "returned" /\ after.result.decision = "Error"
    IN  /\ idx < Len(node.conditions)
        /\ To(FindNextNode(engine, node.id, Some(node.conditions[idx + 1].label), Some(idx),
                           call.current_input_index, Count))

\* C14: a pass on a Lookup node whose record has no lookup_key, or whose
\* table has no row for str(key), routes with the condition at index
\* default_branch when default_branch is configured and otherwise returns
\* an error result; when the row exists, the first condition that holds on
\* the row's lookup_field routes.
C14_LookupRouting ==
    [][\A t \in Threads, inline \in BOOLEAN :
        LET p == [pool EXCEPT !.inline = inline]
            got == NodesGet(engine, calls[t].current_node_id)
            OnRow(node, row, m) ==
                IF row = Nothing
                THEN IF node.config.default_branch # Nothing
                     THEN RoutedWith(node, calls[t], node.config.default_branch[1], calls'[t])
                     ELSE /\ calls'[t].status = "returned"
                          /\ calls'[t].result.decision = "Error"
                          /\ calls'[t].result.error # Nothing
                ELSE (m.exc = Nothing /\ m.match # Nothing)
                     => RoutedWith(node, calls[t], m.match[1].index, calls'[t])
            Field(row, f) == IF f \in DOMAIN row[1] THEN row[1][f] ELSE PyNone
            OnNode(node, row) ==
                OnRow(node, row,
                      IF row = Nothing THEN [exc |-> Nothing, match |-> Nothing]
                      ELSE MatchCondition(node, Field(row, node.config.lookup_field[1]),
                                          ContextOf(calls[t]), p))
        IN  (/\ calls[t].status = "running"
             /\ WhileTest(calls[t].iteration)
             /\ got # Nothing
             /\ got[1].type = "lookup"
             /\ got[1].config.lookup_table \notin {Nothing, Some("")}
             /\ got[1].config.lookup_key \notin {Nothing, Some("")}
             /\ got[1].config.lookup_field \notin {Nothing, Some("")}
             /\ calls'[t] = EvaluateStep(engine, lookups, calls[t], p).call
             /\ calls'[t] # calls[t])
            => OnNode(got[1], LookupRowOf(got[1], calls[t]))]_vars

----------------------------------------------------------------------------
(* Compound conditions                                                     *)

\* criterion is true: a criterion that names a field is tested on that
\* field of the record, a criterion without field on the subject value
CriterionTrue(criterion, subject, context, p) ==
    LET True(r) == r.exc = Nothing /\ r.res
    IN  True(EvaluateSimple(IF criterion.field # Nothing
                            THEN GetFieldValue(context, criterion.field[1])
                            ELSE subject,
                            criterion.operator, criterion.value, p))

\* condition is true on subject: AND when every criterion is true, OR when
\* at least one is; a simple condition when its predicate is true
ConditionTrue(condition, subject, context, p) ==
    LET True(r) == r.exc = Nothing /\ r.res
    IN  IF condition.logic # Nothing /\ condition.criteria # <<>>
        THEN IF condition.logic[1] = "AND"
             THEN \A k \in 1..Len(condition.criteria) :
                      CriterionTrue(condition.criteria[k], subject, context, p)
             ELSE \E k \in 1..Len(condition.criteria) :
                      CriterionTrue(condition.criteria[k], subject, context, p)
        ELSE condition.operator # Nothing
             /\ True(EvaluateSimple(subject, condition.operator[1], condition.value, p))

\* C15: a pass on an Input node routes with its first condition that is
\* true, where a compound condition with logic AND is true exactly when
\* every criterion is true and with logic OR exactly when at least one
\* criterion is true.
C15_CompoundLogic ==
    [][\A t \in Threads, inline \in BOOLEAN :
        LET p == [pool EXCEPT !.inline = inline]
            got == NodesGet(engine, calls[t].current_node_id)
            OnSubject(node, subject) ==
                \A c \in 1..Len(node.conditions) :
                    (/\ node.conditions[c].logic # Nothing
                     /\ ConditionTrue(node.conditions[c], subject, ContextOf(calls[t]), p)
                     /\ \A b \in 1..(c - 1) :
                            ~ConditionTrue(node.conditions[b], subject,
                                           ContextOf(calls[t]), p))
                    => RoutedWith(node, calls[t], c - 1, calls'[t])
        IN  (/\ calls[t].status = "running"
             /\ WhileTest(calls[t].iteration)
             /\ got # Nothing
             /\ got[1].type = "input"
             /\ got[1].config.field \notin {Nothing, Some("")}
             /\ calls'[t] = EvaluateStep(engine, lookups, calls[t], p).call
             /\ calls'[t] # calls[t])
            => OnSubject(got[1], GetFieldValue(ContextOf(calls[t]), got[1].config.field[1]))]_vars

----------------------------------------------------------------------------
(* Formulas                                                                *)

\* the constructs a formula may be made of
RECURSIVE Whitelisted(_)
Whitelisted(node) ==
    /\ \/ node.kind = "Constant" /\ node.val.k \in {"int", "float", "bool", "big"}
       \/ node.kind = "Name"
       \/ node.kind = "UnaryOp" /\ node.ops[1] \in {"UAdd", "USub", "Not"}
       \/ node.kind = "BinOp"
              /\ node.ops[1] \in {"Add", "Sub", "Mult", "Div", "Mod", "Pow", "FloorDiv"}
       \/ node.kind = "Compare"
              /\ \A k \in 1..Len(node.ops) :
                     node.ops[k] \in {"Lt", "LtE", "Gt", "GtE", "Eq", "NotEq"}
       \/ node.kind \in {"BoolOp", "IfExp", "Expression"}
       \/ node.kind = "Call"
              /\ node.kids[1].kind = "Name"
              /\ node.kids[1].id \in {"min", "max", "abs", "round"}
              /\ node.keywords = 0
    /\ \A k \in 1..Len(node.kids) : Whitelisted(node.kids[k])

\* the formula of the call is text that parses into a tree with a construct
\* outside the whitelist
Forbidden(call) ==
    /\ call.name \in {"validate_formula", "evaluate_formula"}
    /\ Strip(call.args.formula) # ""
    /\ AstParse(call.args.formula) # Nothing
    /\ ~Whitelisted(AstParse(call.args.formula)[1])

\* C16: a formula with any construct outside the whitelist (numeric and
\* boolean literals, names, unary + - not, binary + - * / % ** //, the six
\* comparisons, and/or, the conditional, positional calls of min, max, abs,
\* round) makes validate_formula and evaluate_formula raise FormulaError, and
\* they raise before any variable is read or anything is evaluated: past the
\* check, a call holds a whitelisted tree only.
C16_DenyByDefault ==
    /\ (Forbidden(fn) /\ fn.pc # "start") =>
           /\ fn.pc = "raised"
           /\ fn.exc = Some("FormulaError")
           /\ fn.locals = <<>>
    /\ (fn.name \in {"validate_formula", "evaluate_formula"}
            /\ fn.pc \in {"validated", "coerced", "evaluated", "returned"}) =>
           Whitelisted(fn.locals.tree)

\* C16 witness: evaluate_formula has rejected a formula that reads an attribute
C16_ForbiddenRejected ==
    /\ fn.name = "evaluate_formula"
    /\ Forbidden(fn)
    /\ fn.args.formula = "cvss_score.real"
    /\ fn.pc = "raised"

\* C17: evaluate_formula ends either with a float or with FormulaError, never
\* with another exception.  (Violated: an int result beyond the range of
\* float makes float(result) raise OverflowError, which is not caught.)
C17_OnlyFormulaError ==
    (fn.name = "evaluate_formula" /\ fn.pc = "raised") => fn.exc = Some("FormulaError")

----------------------------------------------------------------------------
(* Regular expressions                                                     *)

\* C18: _safe_regex_match never raises, and it returns False for a pattern
\* of more than 200 characters, for a pattern that does not compile and for
\* a search that outlives the time budget.  (Violated: re.compile raises
\* OverflowError, which except re.error lets through, for a repeat count of
\* MAXREPEAT or more; and a caller that resumes only after the worker ended
\* a slow search gets its result.)
C18_RegexNeverRaises ==
    (fn.name = "_safe_regex_match" /\ fn.pc # "start") =>
        /\ fn.pc = "returned"
        /\ (\/ Len(fn.args.pattern) > MAX_REGEX_PATTERN_LENGTH
            \/ ReCompile(fn.args.pattern) # "ok"
            \/ ReSlow(fn.args.pattern, fn.args.text)) => fn.result = FALSE

----------------------------------------------------------------------------
(* CVSS vectors                                                            *)

\* the text of the vector, upper-cased and stripped, starts with prefix
HasPrefix(vector, prefix) ==
    vector.t = "str" /\ StartsWith(Strip(Upper(vector.s)), prefix)

\* the same vector with the prefix "CVSS:3.1/" in the place of "CVSS:3.0/"
As31(vector) ==
    LET Swap(text) == "CVSS:3.1/" \o SubSeq(text, Len("CVSS:3.0/") + 1, Len(text))
    IN  PyStrV(Swap(Strip(vector.s)))

\* C19: parse_cvss_vector never raises; a vector prefixed "CVSS:3.0/" decodes
\* to the map of the same vector prefixed "CVSS:3.1/"; decoding the same
\* vector again gives the same map; an empty, non-string, unprefixed or
\* unknown-version input decodes to the empty map.
C19_ParseCvssVector ==
    (fn.name = "parse_cvss_vector" /\ fn.pc # "start") =>
        /\ fn.pc \in {"returned", "returned twice"}
        /\ HasPrefix(fn.args.vector, "CVSS:3.0/") =>
               fn.result = ParseCvssVector(As31(fn.args.vector))
        /\ fn.pc = "returned twice" => fn.locals.again = fn.result
        /\ ~(\E prefix \in {"CVSS:3.0/", "CVSS:3.1/", "CVSS:4.0/"} :
                 HasPrefix(fn.args.vector, prefix)) => fn.result = <<>>

\* C19 witness: a "CVSS:3.0/" vector has been decoded twice into a map that
\* is not empty
C19_Decoded30Twice ==
    /\ fn.name = "parse_cvss_vector"
    /\ fn.pc = "returned twice"
    /\ HasPrefix(fn.args.vector, "CVSS:3.0/")
    /\ fn.result # <<>>
    /\ "cvss_av" \in DOMAIN fn.result


----------------------------------------------------------------------------
(* Structural validator                                                    *)

\* the pairs <<source, target>> joined by a walk of one to k + 1 edges of E
RECURSIVE Walks(_, _)
Walks(E, k) ==
    LET Longer(W) == W \cup {<<w[1], e[2]>> : <<w, e>> \in {p \in W \X E : p[1][2] = p[2][1]}}
    IN  IF k = 0 THEN E ELSE Longer(Walks(E, k - 1))

\* the directed graph of the edges between existing nodes has a cycle
HasDirectedCycle(structure) ==
    LET ids == NodeIds(structure)
        E == {<<structure.edges[k].source, structure.edges[k].target>> :
                  k \in {j \in 1..Len(structure.edges) :
                             /\ structure.edges[j].source \in ids
                             /\ structure.edges[j].target \in ids}}
    IN  \E id \in ids : <<id, id>> \in Walks(E, Cardinality(ids))

\* the handles that address a condition of the node
HandlesOf(node) ==
    LET Index(k) == ToStr(PyInt(k))
        slots == IF node.config.input_count # Nothing THEN node.config.input_count[1] ELSE 1
    IN  {"handle-" \o Index(c) : c \in 0..(Len(node.conditions) - 1)}
        \cup {"handle-" \o Index(s) \o "-" \o Index(c) :
                  s \in 0..(slots - 1), c \in 0..(Len(node.conditions) - 1)}

\* a structure with valid edges (both ends exist, none leaves an Output
\* node, the handle addresses a condition of the source), a root, an Output
\* node, valid formulas and no cycle
WellFormed(structure) ==
    LET ids == NodeIds(structure)
        nodes == {structure.nodes[k] : k \in 1..Len(structure.nodes)}
        edges == {structure.edges[k] : k \in 1..Len(structure.edges)}
    IN  /\ \A e \in edges :
               /\ e.source \in ids /\ e.target \in ids
               /\ NodeMap(structure, e.source).type # "output"
               /\ e.source_handle # Nothing =>
                      e.source_handle[1] \in HandlesOf(NodeMap(structure, e.source))
        /\ \E id \in ids : \A e \in edges : e.target # id
        /\ \E n \in nodes : n.type = "output"
        /\ \A n \in nodes :
               n.type = "equation" =>
                   /\ n.config.formula # Nothing
                   /\ CheckFormula(n.config.formula[1]).exc = Nothing
        /\ ~HasDirectedCycle(structure)

\* C20: validate_tree_structure never raises: it returns a list of warnings
\* that holds the cycle warning exactly when the edges between existing
\* nodes form a directed cycle, and that is empty for a structure with valid
\* edges, a root, an Output node and no cycle; the call leaves the engine as
\* it is.  (Violated: of the exceptions validate_formula raises on the
\* formula of an Equation node, only FormulaError is caught, and ast.parse
\* raises RecursionError on a formula nested too deep.)
C20_ValidatorAdvisory ==
    (fn.name = "validate_tree_structure" /\ fn.pc # "start") =>
        /\ fn.pc = "returned"
        /\ (\E k \in 1..Len(fn.result) : fn.result[k].kind = "Cycle")
               <=> HasDirectedCycle(fn.args.structure)
        /\ WellFormed(fn.args.structure) => fn.result = <<>>
        /\ engine = BuildTree(EmptyTree)

----------------------------------------------------------------------------
(* Edge resolution, root, default branch                                   *)

\* the outgoing edges of the node, in the order of the structure
OutgoingEdges(node_id) ==
    LET From(e) == e.source = node_id
    IN  SelectSeq(engine.tree_structure.edges, From)

\* the position, among the outgoing edges, of the edge the fixed order
\* resolves for matched label, condition index c (<<>> when unknown), entry
\* slot s (<<>> when none) and input_count count; 0 when it resolves none
ResolvedEdge(edges, label, c, s, count) ==
    LET Plain == Some("handle-" \o ToString(c[1]))
        Expected == IF count > 1 /\ s # Nothing THEN SlotHandle(s[1], c[1]) ELSE Plain
        ByHandle == {k \in 1..Len(edges) : c # Nothing /\ edges[k].source_handle = Expected}
        ByPlain == {k \in 1..Len(edges) :
                        c # Nothing /\ count > 1 /\ edges[k].source_handle = Plain}
        ByLabel == {k \in 1..Len(edges) : edges[k].label = label}
        Unlabelled == {k \in 1..Len(edges) : edges[k].label = Nothing}
        Least(ks) == CHOOSE k \in ks : \A j \in ks : k <= j
    IN  CASE Len(edges) = 0 -> 0
          [] Len(edges) = 1 -> 1
          [] ByHandle # {} -> Least(ByHandle)
          [] ByPlain # {} -> Least(ByPlain)
          [] ByLabel # {} -> Least(ByLabel)
          [] Unlabelled # {} -> Least(Unlabelled)
          [] OTHER -> 0

\* the rule of ResolvedEdge that decides: "none", "single", "handle",
\* "plain handle", "label", "unlabelled" or "unmatched"
ResolvingRule(edges, label, c, s, count) ==
    LET Plain == Some("handle-" \o ToString(c[1]))
        Expected == IF count > 1 /\ s # Nothing THEN SlotHandle(s[1], c[1]) ELSE Plain
    IN  CASE Len(edges) = 0 -> "none"
          [] Len(edges) = 1 -> "single"
          [] c # Nothing /\ \E k \in 1..Len(edges) : edges[k].source_handle = Expected ->
                "handle"
          [] c # Nothing /\ count > 1
                 /\ \E k \in 1..Len(edges) : edges[k].source_handle = Plain -> "plain handle"
          [] \E k \in 1..Len(edges) : edges[k].label = label -> "label"
          [] \E k \in 1..Len(edges) : edges[k].label = Nothing -> "unlabelled"
          [] OTHER -> "unmatched"

\* C21: a pass on a node that is not an Output node and whose evaluation
\* gave a label leaves the node by the edge the fixed order resolves: none
\* without outgoing edge; the only outgoing edge when there is one; else the
\* first edge with the expected source_handle ("handle-s-c" on a
\* multi-input node entered through slot s, else "handle-c"); else, on a
\* multi-input node, the first edge with source_handle "handle-c"; else the
\* first edge whose label is the matched label; else the first edge without
\* label; else none.  When none is resolved the call returns an error
\* result.
C21_EdgeResolutionOrder ==
    [][\A t \in Threads, inline \in BOOLEAN :
        LET p == [pool EXCEPT !.inline = inline]
            got == NodesGet(engine, calls[t].current_node_id)
            Count(node) ==
                IF node.config.input_count # Nothing THEN node.config.input_count[1] ELSE 1
            Leaves(edges, k) ==
                IF k = 0
                THEN /\ calls'[t].status = "returned"
                     /\ calls'[t].result.decision = "Error"
                     /\ calls'[t].result.error # Nothing
                ELSE /\ calls'[t].status = "running"
                     /\ calls'[t].current_node_id = edges[k].target
                     /\ calls'[t].current_input_index = ParseInputIndex(edges[k].target_handle)
            OnNode(node, r) ==
                (r.exc = Nothing /\ node.type # "output")
                => Leaves(OutgoingEdges(node.id),
                          ResolvedEdge(OutgoingEdges(node.id), r.label,
                                       ConditionIndex(node, r.label),
                                       calls[t].current_input_index, Count(node)))
        IN  (/\ calls[t].status = "running"
             /\ WhileTest(calls[t].iteration)
             /\ got # Nothing
             /\ calls'[t] = EvaluateStep(engine, lookups, calls[t], p).call
             /\ calls'[t] # calls[t])
            => OnNode(got[1], NodeEvaluate(got[1], ContextOf(calls[t]), p))]_vars

\* C21 witness: a batch on the structure with fallbacks left the multi-input
\* node by its slot handle (Act), by a plain handle (Attend) and by a label
\* (Track)
C21_AllRulesFollowed ==
    /\ engine.tree_structure = FallbackTree
    /\ batch.pc = "done"
    /\ \E j, k, l \in 1..Len(batch.response.results) :
           /\ vulnerabilities[j].fields.cvss_score = PyFloat10(95)
           /\ batch.response.results[j].decision = "Act"
           /\ vulnerabilities[k].fields.cvss_score = PyFloat10(75)
           /\ batch.response.results[k].decision = "Attend"
           /\ vulnerabilities[l].fields.cvss_score = PyFloat10(40)
           /\ batch.response.results[l].decision = "Track"

\* C22: the handle looked up when a pass leaves an Input node is built from
\* the index i of the condition that matched, or of the default branch that
\* was taken: the pass leaves by the edge the fixed order resolves for
\* "handle-i" or "handle-s-i", also when several conditions of the node
\* carry the same label.  (Violated: evaluate recomputes the index as that
\* of the first condition with the matched label.)
C22_HandleOfMatchedIndex ==
    [][\A t \in Threads, inline \in BOOLEAN :
        LET p == [pool EXCEPT !.inline = inline]
            got == NodesGet(engine, calls[t].current_node_id)
            Count(node) ==
                IF node.config.input_count # Nothing THEN node.config.input_count[1] ELSE 1
            Leaves(edges, k) ==
                IF k = 0
                THEN calls'[t].status = "returned" /\ calls'[t].result.decision = "Error"
                ELSE calls'[t].status = "running"
                     /\ calls'[t].current_node_id = edges[k].target
            With(node, i) ==
                Leaves(OutgoingEdges(node.id),
                       ResolvedEdge(OutgoingEdges(node.id), Some(node.conditions[i + 1].label),
                                    Some(i), calls[t].current_input_index, Count(node)))
            OnMatch(node, m) ==
                IF m.exc # Nothing THEN TRUE
                ELSE IF m.match # Nothing THEN With(node, m.match[1].index)
                ELSE (/\ node.config.default_branch # Nothing
                      /\ node.config.default_branch[1] >= 0
                      /\ node.config.default_branch[1] < Len(node.conditions))
                     => With(node, node.config.default_branch[1])
        IN  (/\ calls[t].status = "running"
             /\ WhileTest(calls[t].iteration)
             /\ got # Nothing
             /\ got[1].type = "input"
             /\ got[1].config.field \notin {Nothing, Some("")}
             /\ calls'[t] = EvaluateStep(engine, lookups, calls[t], p).call
             /\ calls'[t] # calls[t])
            => OnMatch(got[1],
                       MatchCondition(got[1],
                                      GetFieldValue(ContextOf(calls[t]), got[1].config.field[1]),
                                      ContextOf(calls[t]), p))]_vars

\* the root the rule names for a structure: the node without incoming edge;
\* with several such nodes or none, the first Input node; <<>> when there is
\* neither
RuleRoot(structure) ==
    LET nodes == structure.nodes
        targets == {structure.edges[k].target : k \in 1..Len(structure.edges)}
        free == {k \in 1..Len(nodes) : nodes[k].id \notin targets}
        inputs == {k \in 1..Len(nodes) : nodes[k].type = "input"}
        Least(ks) == CHOOSE k \in ks : \A j \in ks : k <= j
    IN  IF Cardinality(free) = 1 THEN Some(nodes[Least(free)].id)
        ELSE IF inputs # {} THEN Some(nodes[Least(inputs)].id)
        ELSE Nothing

\* C23: the root of a built engine is the node without incoming edge; when
\* several nodes or none have no incoming edge it is the first Input node of
\* the structure; and on an engine without root evaluate returns decision
\* "Error" with an empty path.  (Violated: of several nodes without
\* incoming edge the first in node order is the root, whatever its type.)
C23_RootChoice ==
    (fn.name \in EngineMethods /\ fn.pc # "start") =>
        /\ engine.root_node_id = RuleRoot(fn.args.structure)
        /\ (/\ fn.name = "evaluate"
            /\ fn.pc \notin {"built", "evaluating"}
            /\ engine.root_node_id = Nothing) =>
               /\ fn.pc = "returned"
               /\ fn.result.decision = "Error"
               /\ fn.result.error # Nothing
               /\ fn.result.path = <<>>

\* what the node does on the record when its default_branch is left out:
\* it returns the label of the condition that matches, or raises because
\* none does
WithoutDefault(node, vulnerability) ==
    LET bare == [node EXCEPT !.config.default_branch = Nothing]
        context == [vulnerability |-> vulnerability, lookups |-> lookups]
    IN  IF node.type = "input" THEN InputNodeEvaluate(bare, context, pool)
        ELSE EquationNodeEvaluate(bare, context, pool)

\* C24: when no condition of an Input or Equation node matches, the node
\* routes with the label of conditions[default_branch] if default_branch is
\* present and is an index of conditions, and otherwise the evaluation ends
\* with an error result; when a condition matches, its label is used
\* whatever default_branch is.  (Violated: a negative default_branch is
\* taken from the end of the list or lets IndexError leave evaluate.)
C24_DefaultBranch ==
    (/\ fn.name = "evaluate"
     /\ fn.pc \notin {"start", "built", "evaluating"}
     /\ engine.root_node_id # Nothing
     /\ NodesGet(engine, engine.root_node_id[1]) # Nothing
     /\ NodesGet(engine, engine.root_node_id[1])[1].type \in {"input", "equation"}) =>
        LET node == NodesGet(engine, engine.root_node_id[1])[1]
            bare == WithoutDefault(node, fn.args.vulnerability)
            default_branch == node.config.default_branch
            LeftWith(label) ==
                /\ fn.pc = "returned"
                /\ fn.result.path # <<>>
                /\ fn.result.path[1].condition_matched = label
            EndsInError ==
                /\ fn.pc = "returned"
                /\ fn.result.decision = "Error"
                /\ fn.result.error # Nothing
        IN  /\ bare.exc = Nothing => LeftWith(bare.label)
            /\ (/\ bare.exc = Some("NodeEvaluationError")
                /\ bare.msg \in {"aucune condition ne correspond a la valeur",
                                 "aucune condition ne correspond au score"}) =>
                   IF /\ default_branch # Nothing
                      /\ 0 <= default_branch[1]
                      /\ default_branch[1] < Len(node.conditions)
                   THEN LeftWith(Some(node.conditions[default_branch[1] + 1].label))
                   ELSE EndsInError

----------------------------------------------------------------------------
(* Null handling, field resolution *)

\* C25: is_null and is_not_null are decided on the subject value itself,
\* and every other operator, neq, not_contains and not_in included, gives
\* false when the subject value is null
C25_NullHandling ==
    (fn.name = "_evaluate_simple" /\ fn.pc # "start") =>
        /\ fn.args.op = "is_null" =>
               fn.pc = "returned" /\ fn.result = (fn.args.value = PyNone)
        /\ fn.args.op = "is_not_null" =>
               fn.pc = "returned" /\ fn.result = (fn.args.value # PyNone)
        /\ (fn.args.value = PyNone /\ fn.args.op \notin {"is_null", "is_not_null"}) =>
               fn.pc = "returned" /\ fn.result = FALSE

\* C25 witness: every operator has been applied to a null subject, and
\* not_in of a list without the subject's text has returned false for it
C25_NullSubjectSeen ==
    /\ fn.name = "_evaluate_simple"
    /\ fn.pc = "returned"
    /\ fn.args.value = PyNone
    /\ fn.args.op = "not_in"
    /\ fn.args.cond_value = PyStrV("srv")
    /\ fn.result = FALSE

\* the value the order of the rule gives for a name: the declared field of
\* the record (the extra map is the declared field "extra"), else the entry
\* of the extra map, else for the field of a CVSS metric the value decoded
\* from the record's vector, else null
RuleFieldValue(vuln, field) ==
    LET First(a, b) == IF a # PyNone THEN a ELSE b
        Entry(name) == IF name \in DOMAIN vuln.extra THEN vuln.extra[name] ELSE PyNone
        Declared(name) ==
            IF name \in DeclaredFields THEN vuln.fields[name]
            ELSE IF name = "extra" THEN PyDict
            ELSE PyNone
        metric_fields ==
            {CVSS_31_METRICS[a].field : a \in DOMAIN CVSS_31_METRICS}
            \cup {CVSS_40_METRICS[a].field : a \in DOMAIN CVSS_40_METRICS}
        Decoded(vector) ==
            IF field \in metric_fields /\ vector.t = "str" /\ vector.s # ""
            THEN LET parsed == ParseCvssVector(vector)
                 IN  IF field \in DOMAIN parsed THEN PyStrV(parsed[field]) ELSE PyNone
            ELSE PyNone
    IN  First(Declared(field),
              First(Entry(field),
                    Decoded(First(Declared("cvss_vector"), Entry("cvss_vector")))))

----------------------------------------------------------------------------
(* CVSS segments *)

\* the segments of a vector as written in the input: the text after the
\* version prefix, cut at "/", each with what precedes and what follows its
\* first ":"
WrittenSegments(text) ==
    LET parts == Split(SubSeq(Strip(text), Len("CVSS:3.1/") + 1, Len(Strip(text))), "/")
        Cut(part, colon) ==
            [pair |-> colon # 0,
             abbrev |-> Strip(SubSeq(part, 1, colon - 1)),
             code |-> Strip(SubSeq(part, colon + 1, Len(part)))]
    IN  [k \in 1..Len(parts) |-> Cut(parts[k], FindFrom(parts[k], ":", 1))]

\* C27: in a vector with a recognised version prefix a segment whose
\* abbreviation is not in the version's table is ignored, and a segment
\* whose abbreviation is known but whose code is not in the metric's
\* dictionary gives that code, as written in the input, as the value of the
\* derived field, without error.  (Violated: the code is given in upper
\* case whatever the input's case.)
C27_UnknownCodeVerbatim ==
    (/\ fn.name = "parse_cvss_vector"
     /\ fn.pc # "start"
     /\ DetectCvssVersion(fn.args.vector) # Nothing) =>
        LET metrics_map ==
                IF DetectCvssVersion(fn.args.vector) = Some("4.0")
                THEN CVSS_40_METRICS ELSE CVSS_31_METRICS
            segments == WrittenSegments(fn.args.vector.s)
            Known(k) == segments[k].pair /\ Upper(segments[k].abbrev) \in DOMAIN metrics_map
            Metric(k) == metrics_map[Upper(segments[k].abbrev)]
            Last(k) ==
                \A j \in (k + 1)..Len(segments) :
                    Known(j) => Upper(segments[j].abbrev) # Upper(segments[k].abbrev)
        IN  /\ fn.pc \in {"returned", "returned twice"}
            /\ DOMAIN fn.result = {Metric(k).field : k \in {j \in 1..Len(segments) : Known(j)}}
            /\ \A k \in 1..Len(segments) :
                   (Known(k) /\ Last(k)) =>
                       fn.result[Metric(k).field] =
                           IF Upper(segments[k].code) \in DOMAIN Metric(k).values
                           THEN Metric(k).values[Upper(segments[k].code)]
                           ELSE segments[k].code

----------------------------------------------------------------------------
(* Warnings on edges *)

\* the validator has returned a warning of this kind for the edge
Warned(kind, edge) ==
    \E k \in 1..Len(fn.result) : fn.result[k] = Warning(kind, edge.id)

\* C28: validate_tree_structure returns a warning for every edge whose
\* source is an Output node.  (Violated: an edge without source_handle is
\* not looked at.)
C28_OutputSourceWarned ==
    (fn.name = "validate_tree_structure" /\ fn.pc = "returned") =>
        \A k \in 1..Len(fn.args.structure.edges) :
            LET edge == fn.args.structure.edges[k]
            IN  (/\ edge.source \in NodeIds(fn.args.structure)
                 /\ NodeMap(fn.args.structure, edge.source).type = "output") =>
                    Warned("sort d'un noeud output", edge)

\* the indices a source_handle addresses: handle-<condition> or
\* handle-<input>-<condition>; <<>> for an index it does not give
AddressedIndices(handle) ==
    LET parts == Split(Remove(handle, "handle-"), "-")
        Index(text) == IF text # "" /\ AllDigits(text) THEN Some(DigitsVal(text)) ELSE Nothing
    IN  IF ~StartsWith(handle, "handle-") THEN [input |-> Nothing, condition |-> Nothing]
        ELSE IF Len(parts) = 1 THEN [input |-> Nothing, condition |-> Index(parts[1])]
        ELSE IF Len(parts) = 2 /\ Index(parts[1]) # Nothing /\ Index(parts[2]) # Nothing
        THEN [input |-> Index(parts[1]), condition |-> Index(parts[2])]
        ELSE [input |-> Nothing, condition |-> Nothing]

\* C29: validate_tree_structure returns a warning for every edge whose
\* source_handle addresses a condition index that is not below the number
\* of conditions of its source node, or an input index that is not below
\* the source node's input_count.  (Violated: a handle of the form
\* handle-<input>-<condition> is only looked at on a node whose input_count
\* is above 1.)
C29_HandleIndicesWarned ==
    (fn.name = "validate_tree_structure" /\ fn.pc = "returned") =>
        \A k \in 1..Len(fn.args.structure.edges) :
            LET edge == fn.args.structure.edges[k]
                source_node == NodeMap(fn.args.structure, edge.source)
                input_count == IF source_node.config.input_count # Nothing
                               THEN source_node.config.input_count[1] ELSE 1
                addressed == AddressedIndices(edge.source_handle[1])
            IN  (/\ edge.source \in NodeIds(fn.args.structure)
                 /\ edge.source_handle # Nothing
                 /\ ~Warned("sort d'un noeud output", edge)) =>
                    /\ (/\ addressed.condition # Nothing
                        /\ addressed.condition[1] >= Len(source_node.conditions)) =>
                           Warned("condition_index", edge)
                    /\ (/\ addressed.input # Nothing
                        /\ addressed.input[1] >= input_count) =>
                           Warned("input_index", edge)

----------------------------------------------------------------------------
(* Introspection *)

\* the record fields the nodes of a structure can read during an
\* evaluation: the field of an Input node, the lookup_key of a Lookup node,
\* the variables of an Equation node, the fields of compound criteria
ReadableFields(structure) ==
    LET nodes == structure.nodes
        Configured(c) == IF c # Nothing THEN {c[1]} ELSE {}
        OfNode(node) ==
            (IF node.type = "input" THEN Configured(node.config.field) ELSE {})
            \cup (IF node.type = "lookup" THEN Configured(node.config.lookup_key) ELSE {})
            \cup (IF node.type = "equation"
                  THEN {node.config.variables[k] : k \in 1..Len(node.config.variables)}
                  ELSE {})
            \cup UNION {UNION {Configured(node.conditions[c].criteria[k].field) :
                                   k \in 1..Len(node.conditions[c].criteria)} :
                            c \in 1..Len(node.conditions)}
    IN  UNION {OfNode(nodes[k]) : k \in 1..Len(nodes)}

\* C30: get_required_fields returns a set that holds every record field
\* some node of the structure can read, and get_lookup_tables returns
\* exactly the lookup_table names configured on the nodes.  (Violated: the
\* variables of Equation nodes and the fields of compound criteria are not
\* returned.)
C30_Introspection ==
    /\ (fn.name = "get_required_fields" /\ fn.pc \notin {"start", "built"}) =>
           /\ fn.pc = "returned"
           /\ ReadableFields(fn.args.structure) \subseteq fn.result
    /\ (fn.name = "get_lookup_tables" /\ fn.pc \notin {"start", "built"}) =>
           /\ fn.pc = "returned"
           /\ fn.result =
                  {fn.args.structure.nodes[k].config.lookup_table[1] :
                       k \in {j \in 1..Len(fn.args.structure.nodes) :
                                  fn.args.structure.nodes[j].config.lookup_table # Nothing}}
============================================================================
